---------------------------- MODULE Spec2Model ----------------------------
(***************************************************************************)
(* A model of typed-environment-cli: the reconciler                        *)
(* (analyzeEnvironmentVariables), the legacy sync-example command, the     *)
(* schema inference engine (generateSchemaFromEnv), the example generator  *)
(* (generateEnvExampleFromSchema), the check command and the schema loader *)
(* (findSchemaFile, loadSchema).                                           *)
(*                                                                         *)
(* Conventions                                                             *)
(*   - a JS string is a sequence of one-character strings;                 *)
(*   - a JS Map / Set / object is the sequence of its entries in insertion *)
(*     order, with pairwise distinct keys;                                 *)
(*   - an optional attribute is a set with at most one element: {} when    *)
(*     the attribute is undefined, {v} when it is v.                       *)
(***************************************************************************)
EXTENDS Integers, Sequences, FiniteSets, TLC

VARIABLES
    schema,      \* the EnvSchema object: <<[key, def]>> in insertion order
    envVars,     \* the Map<string,string> parsed from .env: <<[key, value]>>
    analysis,    \* the last result of analyzeEnvironmentVariables, or {} / {r}
    calls,       \* number of analyzeEnvironmentVariables calls made so far
    codeVars,    \* legacy mode: the Set<string> of names referenced in code
    legacy,      \* legacy mode: what syncExample computed and wrote, {} / {r}
    genSchema,   \* the result of generateSchemaFromEnv, {} / {schema}
    existingEnv, \* the optional Map given to generateEnvExampleFromSchema
    rendered,    \* the lines generateEnvExampleFromSchema returned, {} / {doc}
    envFile,     \* fs.existsSync(options.env)
    checkRun,    \* how the check command ended, {} / {r}
    dirFiles,    \* the names of the files of the base directory
    found,       \* what findSchemaFile returned, {} / {r}
    exports,     \* the namespace of the imported schema module: <<[name, value]>>
    loaded,      \* how loadSchema ended, {} / {r}
    options,     \* the options of the command line: schema, output, force
    importOk,    \* import() of the schema file gives the module of schema
    got,         \* how getSchemaFile ended, {} / {r}
    outFile,     \* the content of the output file, {} when there is none
    syncRun,     \* how the last sync-example (schema mode) ended, {} / {r}
    genRun       \* how generate-schema ended, {} / {r}

renderVars == <<existingEnv, rendered>>
checkVars == <<envFile, checkRun>>
loaderVars == <<dirFiles, found, exports, loaded>>
commandVars == <<options, importOk, got, outFile, syncRun, genRun>>

vars == <<schema, envVars, analysis, calls, codeVars, legacy, genSchema,
          renderVars, checkVars, loaderVars, commandVars>>

(***************************************************************************)
(* Bounds of the model.                                                    *)
(***************************************************************************)
MaxSchemaKeys == 2
MaxEnvKeys == 2
MaxCalls == 2
MaxCodeVars == 2
MaxValLen == 5
MaxSecretLen == 50

(***************************************************************************)
(* Strings.                                                                *)
(***************************************************************************)
None == {}
Some(v) == {v}
The(opt) == CHOOSE v \in opt : TRUE

\* The JS string with the characters of the literal lit.
Str(lit) == [i \in 1..Len(lit) |-> SubSeq(lit, i, i)]

\* The printable ASCII characters in code-unit order, in runs of consecutive
\* code units: 0x20-0x21, 0x23-0x5B, 0x5D-0x5F and 0x61-0x7E (the double
\* quote, the backslash and the backquote are left out).
AsciiRuns ==
    <<[first |-> 32, chars |-> <<" ", "!">>],
      [first |-> 35, chars |->
         <<"#", "$", "%", "&", "'", "(", ")", "*", "+", ",", "-", ".", "/",
           "0", "1", "2", "3", "4", "5", "6", "7", "8", "9", ":", ";", "<",
           "=", ">", "?", "@", "A", "B", "C", "D", "E", "F", "G", "H", "I",
           "J", "K", "L", "M", "N", "O", "P", "Q", "R", "S", "T", "U", "V",
           "W", "X", "Y", "Z", "[">>],
      [first |-> 93, chars |-> <<"]", "^", "_">>],
      [first |-> 97, chars |->
         <<"a", "b", "c", "d", "e", "f", "g", "h", "i", "j", "k", "l", "m",
           "n", "o", "p", "q", "r", "s", "t", "u", "v", "w", "x", "y", "z",
           "{", "|", "}", "~">>]>>

\* The UTF-16 code unit of a printable ASCII character.
Code(c) ==
    LET r == CHOOSE r \in 1..Len(AsciiRuns) :
                \E i \in 1..Len(AsciiRuns[r].chars) : AsciiRuns[r].chars[i] = c
        i == CHOOSE i \in 1..Len(AsciiRuns[r].chars) : AsciiRuns[r].chars[i] = c
    IN AsciiRuns[r].first + i - 1

\* The order Array.prototype.sort() uses without a comparator: strings are
\* compared code unit by code unit, a proper prefix sorting first.
RECURSIVE StrLess(_, _)
StrLess(a, b) ==
    IF b = <<>> THEN FALSE
    ELSE IF a = <<>> THEN TRUE
    ELSE IF Head(a) = Head(b) THEN StrLess(Tail(a), Tail(b))
    ELSE Code(Head(a)) < Code(Head(b))

\* sort() left out: the array as it was filled.
ArrayUnsorted(s) == s

RECURSIVE InsertSorted(_, _)
InsertSorted(x, s) ==
    IF s = <<>> THEN <<x>>
    ELSE IF StrLess(Head(s), x) THEN <<Head(s)>> \o InsertSorted(x, Tail(s))
    ELSE <<x>> \o s

RECURSIVE SortedArray(_)
SortedArray(s) ==
    IF s = <<>> THEN <<>> ELSE InsertSorted(Head(s), SortedArray(Tail(s)))

\* Array.prototype.sort() on an array of strings (default comparator).
ArraySort(s) == SortedArray(s)

Range(s) == {s[i] : i \in 1..Len(s)}

\* Object.keys(obj) / map.keys(): the keys in insertion order.
Keys(m) == [i \in 1..Len(m) |-> m[i].key]

\* map.has(key) / key in obj
Has(m, k) == \E i \in 1..Len(m) : m[i].key = k

\* map.get(key) / obj[key], for a key that is there
Get(m, k) == m[CHOOSE i \in 1..Len(m) : m[i].key = k]

(***************************************************************************)
(* The reconciler.                                                         *)
(***************************************************************************)
\* present.push(key) only for a key whose value is truthy (non-empty).
PresentKeysTruthy(s, e) ==
    SelectSeq(Keys(s), LAMBDA k : Has(e, k) /\ Get(e, k).value # <<>>)

\* for (const key of schemaKeys): present.push(key) when the Map has it
PresentKeys(s, e) == SelectSeq(Keys(s), LAMBDA k : Has(e, k))

\* missing.push(key) for every required key, the else branch forgotten.
MissingKeysNoElse(s, e) ==
    SelectSeq(Keys(s), LAMBDA k : Get(s, k).def.required = Some(TRUE))

\* missing.push(key) unless required is false: required !== false.
MissingKeysNotFalse(s, e) ==
    SelectSeq(Keys(s), LAMBDA k : ~Has(e, k) /\ Get(s, k).def.required # Some(FALSE))

\* ... else missing.push(key) when fieldDef.required === true
MissingKeys(s, e) ==
    SelectSeq(Keys(s), LAMBDA k : ~Has(e, k) /\ Get(s, k).def.required = Some(TRUE))

\* for (const key of envKeys): extra.push(key) when the schema lacks it
ExtraKeys(s, e) == SelectSeq(Keys(e), LAMBDA k : ~Has(s, k))

\* total counted over the environment instead of the schema.
analyzeTotalOfEnv(s, e) ==
    [missing |-> ArraySort(MissingKeys(s, e)),
     extra   |-> ArraySort(ExtraKeys(s, e)),
     present |-> ArraySort(PresentKeys(s, e)),
     total   |-> Cardinality(Range(Keys(e)))]

analyzeEnvironmentVariables(s, e) ==
    [missing |-> ArraySort(MissingKeys(s, e)),
     extra   |-> ArraySort(ExtraKeys(s, e)),
     present |-> ArraySort(PresentKeys(s, e)),
     total   |-> Cardinality(Range(Keys(s)))]

(***************************************************************************)
(* Inputs of the reconciler.                                               *)
(***************************************************************************)
Names == {Str("A"), Str("AB"), Str("a")}

\* Field definitions as the reconciler reads them: required only, a default
\* only (PORT of the bundled schema), required false, required with a default.
FieldDef(type, required, default) ==
    [type |-> type, required |-> required, default |-> default,
     pattern |-> None, minLength |-> None, maxLength |-> None,
     min |-> None, max |-> None, choices |-> None]

SchemaDefs ==
    {FieldDef("string", Some(TRUE), None),
     FieldDef("number", None, Some(3000)),
     FieldDef("string", Some(FALSE), None),
     FieldDef("number", Some(TRUE), Some(1))}

\* Raw values: the empty value, and one no number or boolean field accepts.
RawValues == {<<>>, <<"v">>}

\* The sequences of at most n pairwise distinct elements of S, in every order.
RECURSIVE KeySeqs(_, _)
KeySeqs(S, n) ==
    IF n = 0 THEN {<<>>}
    ELSE LET shorter == KeySeqs(S, n - 1)
             longest == {q \in shorter : Len(q) = n - 1}
         IN shorter \cup
            {Append(p[1], p[2]) :
               p \in {p \in longest \X S : p[2] \notin Range(p[1])}}

SchemasOver(S, n) ==
    UNION {{[i \in 1..Len(ks) |-> [key |-> ks[i], def |-> ds[i]]] :
              ds \in [1..Len(ks) -> SchemaDefs]} : ks \in KeySeqs(S, n)}

EnvsOver(S, n) ==
    UNION {{[i \in 1..Len(ks) |-> [key |-> ks[i], value |-> vs[i]]] :
              vs \in [1..Len(ks) -> RawValues]} : ks \in KeySeqs(S, n)}

\* The commands that do not run leave their part of the state as it starts.
RenderIdle == existingEnv = None /\ rendered = None
CheckIdle == envFile = TRUE /\ checkRun = None
LoaderIdle == dirFiles = {} /\ found = None /\ exports = <<>> /\ loaded = None

\* No option is given on the command line.
NoOptions == [schema |-> None, output |-> None, force |-> FALSE]

CommandIdle ==
    /\ options = NoOptions
    /\ importOk = TRUE
    /\ got = None
    /\ outFile = None
    /\ syncRun = None
    /\ genRun = None

(***************************************************************************)
(* The reconciler as a state machine: a schema and an environment are       *)
(* given, and analyzeEnvironmentVariables is called on them repeatedly.    *)
(***************************************************************************)
Init ==
    /\ schema \in SchemasOver(Names, MaxSchemaKeys)
    /\ envVars \in EnvsOver(Names, MaxEnvKeys)
    /\ analysis = None
    /\ calls = 0
    /\ codeVars = <<>>
    /\ legacy = None
    /\ genSchema = None
    /\ RenderIdle /\ CheckIdle /\ LoaderIdle /\ CommandIdle

\* A reconciler that consumes the Map while it classifies: every schema key it
\* finds is deleted from envVars, so that what is left is the extra keys.
AnalyzeConsuming ==
    /\ calls < MaxCalls
    /\ analysis' = Some(analyzeEnvironmentVariables(schema, envVars))
    /\ calls' = calls + 1
    /\ schema' = schema
    /\ envVars' = SelectSeq(envVars, LAMBDA en : ~Has(schema, en.key))
    /\ UNCHANGED <<codeVars, legacy, genSchema,
                 renderVars, checkVars, loaderVars,
                   commandVars>>

\* One call analyzeEnvironmentVariables(schema, envVars): the function builds
\* its own Sets and arrays and assigns to neither argument.
Analyze ==
    /\ calls < MaxCalls
    /\ analysis' = Some(analyzeEnvironmentVariables(schema, envVars))
    /\ calls' = calls + 1
    /\ schema' = schema
    /\ envVars' = envVars
    /\ UNCHANGED <<codeVars, legacy, genSchema,
                 renderVars, checkVars, loaderVars,
                   commandVars>>

Next == Analyze

Spec == Init /\ [][Next]_vars

(***************************************************************************)
(* Legacy (no-schema) mode: sync-example over the names the source code    *)
(* refers to.                                                              *)
(***************************************************************************)
UpperCase == Range(Str("ABCDEFGHIJKLMNOPQRSTUVWXYZ"))
Digits == Range(Str("0123456789"))

\* What the scanner's patterns capture: [A-Z_][A-Z0-9_]*
IsCodeName(n) ==
    /\ n # <<>>
    /\ n[1] \in UpperCase \cup {"_"}
    /\ \A i \in 2..Len(n) : n[i] \in UpperCase \cup Digits \cup {"_"}

LegacyNames == Names \cup {Str("B")}
CodeNames == {n \in LegacyNames : IsCodeName(n)}

\* missing computed from the value instead of the key: !envVars.get(key)
LegacyMissingTruthy(code, env) ==
    SelectSeq(code, LAMBDA k : ~(Has(env, k) /\ Get(env, k).value # <<>>))

\* [...codeVars].filter(key => !envVars.has(key))
LegacyMissing(code, env) == SelectSeq(code, LAMBDA k : ~Has(env, k))

\* [...envVars.keys()].filter(key => !codeVars.has(key))
LegacyUnused(code, env) == SelectSeq(Keys(env), LAMBDA k : k \notin Range(code))

\* new Set([...]): the elements in order of first occurrence.
RECURSIVE NewSet(_)
NewSet(s) ==
    IF s = <<>> THEN <<>>
    ELSE LET init == NewSet(SubSeq(s, 1, Len(s) - 1))
             last == s[Len(s)]
         IN IF last \in Range(init) THEN init ELSE Append(init, last)

ExampleComment(hasValue, foundInCode) ==
    IF ~hasValue /\ foundInCode
    THEN " # Required: Found in code but missing from .env"
    ELSE IF hasValue /\ ~foundInCode
    THEN " # Warning: Defined but not used in code"
    ELSE ""

\* The document: its three header lines, then one KEY= line per name.
generateEnvExample(env, code) ==
    LET sortedKeys == ArraySort(NewSet(Keys(env) \o code))
    IN [header |-> <<"# Environment Variables",
                     "# Copy this file to .env and fill in the values",
                     "">>,
        lines  |-> [i \in 1..Len(sortedKeys) |->
                      [key     |-> sortedKeys[i],
                       comment |-> ExampleComment(Has(env, sortedKeys[i]),
                                                  sortedKeys[i] \in Range(code))]]]

InitLegacy ==
    /\ schema = <<>>
    /\ envVars \in EnvsOver(LegacyNames, MaxEnvKeys)
    /\ codeVars \in KeySeqs(CodeNames, MaxCodeVars)
    /\ analysis = None
    /\ calls = 0
    /\ legacy = None
    /\ genSchema = None
    /\ RenderIdle /\ CheckIdle /\ LoaderIdle /\ CommandIdle

\* syncExample of the legacy command: reads the two inputs, computes the two
\* sets it reports and writes the example document; it ends without exit(1).
SyncExampleLegacy ==
    /\ legacy' = Some([missingVars    |-> LegacyMissing(codeVars, envVars),
                       unusedVars     |-> LegacyUnused(codeVars, envVars),
                       exampleContent |-> generateEnvExample(envVars, codeVars),
                       totalVars      |-> Len(NewSet(Keys(envVars) \o codeVars))])
    /\ UNCHANGED <<schema, envVars, codeVars, analysis, calls, genSchema,
                 renderVars, checkVars, loaderVars,
                   commandVars>>

NextLegacy == SyncExampleLegacy

SpecLegacy == InitLegacy /\ [][NextLegacy]_vars

(***************************************************************************)
(* String functions of the inference engine.                               *)
(***************************************************************************)
LowerCase == Str("abcdefghijklmnopqrstuvwxyz")
UpperSeq == Str("ABCDEFGHIJKLMNOPQRSTUVWXYZ")

\* String.prototype.toLowerCase, on ASCII
ToLowerCase(s) ==
    [i \in 1..Len(s) |->
       IF s[i] \in UpperCase
       THEN LowerCase[CHOOSE j \in 1..Len(UpperSeq) : UpperSeq[j] = s[i]]
       ELSE s[i]]

\* The white space a raw value can hold: the space and the tab.
WhiteSpace == {" ", "\t"}

RECURSIVE TrimStart(_)
TrimStart(s) ==
    IF s # <<>> /\ Head(s) \in WhiteSpace THEN TrimStart(Tail(s)) ELSE s

RECURSIVE TrimEnd(_)
TrimEnd(s) ==
    IF s # <<>> /\ s[Len(s)] \in WhiteSpace
    THEN TrimEnd(SubSeq(s, 1, Len(s) - 1))
    ELSE s

\* String.prototype.trim
Trim(s) == TrimEnd(TrimStart(s))

\* String.prototype.startsWith
StartsWith(s, prefix) ==
    Len(prefix) <= Len(s) /\ SubSeq(s, 1, Len(prefix)) = prefix

\* String.prototype.includes
Includes(s, sub) ==
    \E i \in 0..(Len(s) - Len(sub)) : SubSeq(s, i + 1, i + Len(sub)) = sub

AllIn(s, S) == \A i \in 1..Len(s) : s[i] \in S

(***************************************************************************)
(* Number(value): the StringNumericLiteral grammar of ECMAScript.  Only    *)
(* whether the result is NaN matters to inferType.                         *)
(***************************************************************************)
HexDigits == Digits \cup Range(Str("abcdefABCDEF"))
OctalDigits == Range(Str("01234567"))
BinaryDigits == {"0", "1"}

IsDecimalDigits(s) == s # <<>> /\ AllIn(s, Digits)

\* DecimalDigits . DecimalDigits(opt) | . DecimalDigits | DecimalDigits
IsMantissa(s) ==
    \/ IsDecimalDigits(s)
    \/ /\ Len(s) > 1
       /\ \E k \in 1..Len(s) :
            /\ s[k] = "."
            /\ AllIn(SubSeq(s, 1, k - 1), Digits)
            /\ AllIn(SubSeq(s, k + 1, Len(s)), Digits)

IsSignedInteger(s) ==
    \/ IsDecimalDigits(s)
    \/ s # <<>> /\ Head(s) \in {"+", "-"} /\ IsDecimalDigits(Tail(s))

IsUnsignedDecimal(s) ==
    \/ s = Str("Infinity")
    \/ IsMantissa(s)
    \/ \E k \in 1..Len(s) :
         /\ s[k] \in {"e", "E"}
         /\ IsMantissa(SubSeq(s, 1, k - 1))
         /\ IsSignedInteger(SubSeq(s, k + 1, Len(s)))

IsStrDecimalLiteral(s) ==
    \/ IsUnsignedDecimal(s)
    \/ s # <<>> /\ Head(s) \in {"+", "-"} /\ IsUnsignedDecimal(Tail(s))

IsNonDecimalInteger(s) ==
    /\ Len(s) >= 3
    /\ s[1] = "0"
    /\ LET rest == SubSeq(s, 3, Len(s))
       IN \/ s[2] \in {"x", "X"} /\ AllIn(rest, HexDigits)
          \/ s[2] \in {"o", "O"} /\ AllIn(rest, OctalDigits)
          \/ s[2] \in {"b", "B"} /\ AllIn(rest, BinaryDigits)

\* isNaN(Number(s)): white space around the literal is skipped, and the empty
\* or blank string converts to 0.
NumberIsNaN(s) ==
    LET t == Trim(s)
    IN t # <<>> /\ ~IsStrDecimalLiteral(t) /\ ~IsNonDecimalInteger(t)

(***************************************************************************)
(* The inference engine.                                                   *)
(***************************************************************************)
\* The number test without its value.trim() !== '' conjunct.
inferTypeBlankIsNumber(value) ==
    IF ToLowerCase(value) = Str("true") \/ ToLowerCase(value) = Str("false")
    THEN "boolean"
    ELSE IF ~NumberIsNaN(value) THEN "number"
    ELSE "string"

inferType(value) ==
    IF ToLowerCase(value) = Str("true") \/ ToLowerCase(value) = Str("false")
    THEN "boolean"
    ELSE IF ~NumberIsNaN(value) /\ Trim(value) # <<>> THEN "number"
    ELSE "string"

\* The regular expressions the engine attaches, by their source text.
HttpPattern == "^https?:\\/\\/.+"
PostgresPattern == "^postgres(ql)?:\\/\\/.+"
MongoPattern == "^mongodb(\\+srv)?:\\/\\/.+"
RedisPattern == "^redis:\\/\\/.+"
EmailPattern == "^[^\\s@]+@[^\\s@]+\\.[^\\s@]+$"

UrlPattern(value) ==
    IF StartsWith(value, Str("http://")) \/ StartsWith(value, Str("https://"))
    THEN Some(HttpPattern)
    ELSE IF StartsWith(value, Str("postgresql://")) \/ StartsWith(value, Str("postgres://"))
    THEN Some(PostgresPattern)
    ELSE IF StartsWith(value, Str("mongodb://")) \/ StartsWith(value, Str("mongodb+srv://"))
    THEN Some(MongoPattern)
    ELSE IF StartsWith(value, Str("redis://"))
    THEN Some(RedisPattern)
    ELSE None

SecretMinLength == 16
SecretMaxSuggested == 32

Min(a, b) == IF a <= b THEN a ELSE b

\* The URL rule, then the email rule, which assigns result.pattern again.
detectedPattern(key, value) ==
    LET r1 == IF Includes(key, Str("URL")) \/ Includes(key, Str("ENDPOINT"))
              THEN UrlPattern(value)
              ELSE None
    IN IF Includes(key, Str("EMAIL")) /\ Includes(value, Str("@"))
       THEN Some(EmailPattern)
       ELSE r1

isSecretName(key) ==
    \/ Includes(key, Str("SECRET"))
    \/ Includes(key, Str("KEY"))
    \/ Includes(key, Str("TOKEN"))

\* Math.min left out: the sample's own length is suggested.
detectPatternsNoCap(key, value) ==
    [pattern   |-> detectedPattern(key, value),
     minLength |-> IF isSecretName(key) /\ Len(value) >= SecretMinLength
                   THEN Some(Len(value))
                   ELSE None]

detectPatterns(key, value) ==
    [pattern   |-> detectedPattern(key, value),
     minLength |-> IF isSecretName(key) /\ Len(value) >= SecretMinLength
                   THEN Some(Min(Len(value), SecretMaxSuggested))
                   ELSE None]

EnvSamples == <<Str("development"), Str("staging"), Str("production"), Str("test")>>
EnvChoices == <<Str("development"), Str("staging"), Str("production")>>
LevelChoices == <<Str("debug"), Str("info"), Str("warn"), Str("error")>>

\* A detectChoices that offers every sample it accepts, "test" among them.
detectChoicesOfSamples(key, value) ==
    LET lowerValue == ToLowerCase(value)
    IN IF Includes(key, Str("ENV")) /\ lowerValue \in Range(EnvSamples)
       THEN Some(EnvSamples)
       ELSE IF Includes(key, Str("LEVEL")) /\ lowerValue \in Range(LevelChoices)
       THEN Some(LevelChoices)
       ELSE None

detectChoices(key, value) ==
    LET lowerValue == ToLowerCase(value)
    IN IF /\ (key = Str("NODE_ENV") \/ Includes(key, Str("ENV")))
          /\ lowerValue \in Range(EnvSamples)
       THEN Some(EnvChoices)
       ELSE IF /\ (Includes(key, Str("LOG_LEVEL")) \/ Includes(key, Str("LEVEL")))
               /\ lowerValue \in Range(LevelChoices)
       THEN Some(LevelChoices)
       ELSE None

PortMin == 1
PortMax == 65535
TimeoutMin == 0
LimitMin == 1

\* The three rules in the order of the code; each assigns result.min, so the
\* last one that matches decides it.
detectNumericConstraints(key) ==
    LET r0 == [min |-> None, max |-> None]
        r1 == IF Includes(key, Str("PORT"))
              THEN [r0 EXCEPT !.min = Some(PortMin), !.max = Some(PortMax)]
              ELSE r0
        r2 == IF Includes(key, Str("TIMEOUT"))
              THEN [r1 EXCEPT !.min = Some(TimeoutMin)]
              ELSE r1
    IN IF Includes(key, Str("LIMIT")) \/ Includes(key, Str("MAX"))
       THEN [r2 EXCEPT !.min = Some(LimitMin)]
       ELSE r2

\* if (x) on an optional number: undefined and 0 are both falsy.
Truthy(opt) == opt # None /\ opt # Some(0)

\* A loop body that attaches what every rule finds, whatever the type.
inferFieldDefOfAnyType(key, value) ==
    LET patterns == detectPatterns(key, value)
        constraints == detectNumericConstraints(key)
    IN [FieldDef(inferType(value), Some(TRUE), None) EXCEPT
          !.pattern = patterns.pattern,
          !.minLength = patterns.minLength,
          !.choices = detectChoices(key, value),
          !.min = constraints.min,
          !.max = constraints.max]

\* The body of the loop of generateSchemaFromEnv, for one entry.
inferFieldDef(key, value) ==
    LET type == inferType(value)
        bare == FieldDef(type, Some(TRUE), None)
        patterns == detectPatterns(key, value)
        constraints == detectNumericConstraints(key)
    IN IF type = "string"
       THEN [bare EXCEPT !.pattern = patterns.pattern,
                         !.minLength = IF Truthy(patterns.minLength)
                                       THEN patterns.minLength
                                       ELSE None,
                         !.choices = detectChoices(key, value)]
       ELSE IF type = "number"
       THEN [bare EXCEPT !.min = constraints.min, !.max = constraints.max]
       ELSE bare

\* A generator that leaves out the variables whose value is empty.
generateSchemaSkippingEmpty(env) ==
    LET filled == SelectSeq(env, LAMBDA en : en.value # <<>>)
    IN [i \in 1..Len(filled) |->
          [key |-> filled[i].key,
           def |-> inferFieldDef(filled[i].key, filled[i].value)]]

\* schema[key] = fieldDef for every entry of the Map, in its order.
generateSchemaFromEnv(env) ==
    [i \in 1..Len(env) |->
       [key |-> env[i].key, def |-> inferFieldDef(env[i].key, env[i].value)]]

(***************************************************************************)
(* The validator of a present value against a field definition: type      *)
(* coercion, then min/max, pattern, minLength/maxLength and choices.       *)
(***************************************************************************)
\* pattern.test(value), for the patterns the engine attaches.  A scheme
\* pattern asks for one of its prefixes and at least one more character; the
\* email pattern for one "@", no white space, a non-empty local part and a
\* dot inside what follows the "@".
MatchesPrefix(value, prefixes) ==
    \E pre \in prefixes : StartsWith(value, Str(pre)) /\ Len(value) > Len(pre)

MatchesEmail(value) ==
    /\ AllIn(value, Range(value) \ WhiteSpace)
    /\ \E k \in 2..Len(value) :
         /\ value[k] = "@"
         /\ \A j \in 1..Len(value) : value[j] = "@" => j = k
         /\ \E d \in (k + 2)..(Len(value) - 1) : value[d] = "."

RegExpTest(pattern, value) ==
    CASE pattern = HttpPattern -> MatchesPrefix(value, {"http://", "https://"})
      [] pattern = PostgresPattern ->
            MatchesPrefix(value, {"postgres://", "postgresql://"})
      [] pattern = MongoPattern ->
            MatchesPrefix(value, {"mongodb://", "mongodb+srv://"})
      [] pattern = RedisPattern -> MatchesPrefix(value, {"redis://"})
      [] pattern = EmailPattern -> MatchesEmail(value)

\* An optional sign and decimal digits, white space around them skipped.
IsIntegerLiteral(s) == IsSignedInteger(Trim(s))

RECURSIVE DigitsValue(_)
DigitsValue(s) ==
    IF s = <<>> THEN 0
    ELSE 10 * DigitsValue(SubSeq(s, 1, Len(s) - 1)) + (Code(s[Len(s)]) - Code("0"))

\* Number(s) of an integer literal.
NumberValue(s) ==
    LET t == Trim(s)
    IN CASE IsDecimalDigits(t) -> DigitsValue(t)
         [] t # <<>> /\ Head(t) = "+" /\ IsDecimalDigits(Tail(t)) -> DigitsValue(Tail(t))
         [] t # <<>> /\ Head(t) = "-" /\ IsDecimalDigits(Tail(t)) -> 0 - DigitsValue(Tail(t))

CoercesTo(type, value) ==
    CASE type = "boolean" ->
            ToLowerCase(value) = Str("true") \/ ToLowerCase(value) = Str("false")
      [] type = "number" -> ~NumberIsNaN(value)
      [] type = "string" -> TRUE

ValidatesField(def, value) ==
    /\ CoercesTo(def.type, value)
    /\ def.type = "number" =>
         /\ def.min # None => NumberValue(value) >= The(def.min)
         /\ def.max # None => NumberValue(value) <= The(def.max)
    /\ def.type = "string" =>
         /\ def.pattern # None => RegExpTest(The(def.pattern), value)
         /\ def.minLength # None => Len(value) >= The(def.minLength)
         /\ def.maxLength # None => Len(value) <= The(def.maxLength)
    /\ def.choices # None => value \in Range(The(def.choices))

(***************************************************************************)
(* Inputs of the inference engine.                                         *)
(***************************************************************************)
NeutralName == Str("APP_NAME")

InferNames ==
    {NeutralName, Str("DEBUG"), Str("PORT"), Str("TIMEOUT"), Str("RATE_LIMIT"),
     Str("MAX_CONNECTIONS"), Str("PORT_TIMEOUT"), Str("API_URL"),
     Str("API_ENDPOINT"), Str("ADMIN_EMAIL"), Str("EMAIL_URL"),
     Str("JWT_SECRET"), Str("API_KEY"), Str("AUTH_TOKEN"), Str("NODE_ENV"),
     Str("LOG_LEVEL"), Str("ENV_LEVEL")}

\* Values of every kind the rules look at.  The numbers among them are
\* integer literals.
SampleValues ==
    {Str(""), Str(" "), Str("true"), Str("TRUE"), Str("False"), Str(" true"),
     Str("0"), Str("1"), Str("3000"), Str("65535"), Str("65536"), Str("-1"),
     Str(" 8080"), Str("1234567890123456"),
     Str("development"), Str("Development"), Str("staging"), Str("production"),
     Str("test"), Str("local"),
     Str("debug"), Str("WARN"), Str("verbose"),
     Str("http://"), Str("http://x"), Str("https://example.com"),
     Str("postgres://db"), Str("postgresql://localhost:5432/db"),
     Str("mongodb://h"), Str("mongodb+srv://h"), Str("redis://h"),
     Str("mysql://x"),
     Str("https://u@h.c"),
     Str("a@b"), Str("a@b.c"), Str("admin@example.com"), Str("a b@c.d"),
     Str("abc")}

\* Numeric literals that are no integer literals, and near misses.
NumericForms ==
    {Str("1.5"), Str(".5"), Str("1."), Str("."), Str("+1"), Str("1e3"),
     Str("1E-3"), Str("1e"), Str("e1"), Str("--1"), Str("1.2.3"), Str("0x1F"),
     Str("0xG"), Str("0b101"), Str("0o17"), Str("Infinity"), Str("-Infinity"),
     Str("infinity"), Str("NaN"), Str("12px"), Str("\t"), Str("\ttrue"),
     Str(" FALSE "), Str("1 1")}

\* A value of n times the character c.
Repeat(c, n) == [i \in 1..n |-> c]

SecretValues == {Repeat("x", n) : n \in 0..MaxSecretLen}

TypeAlphabet == {"t", "r", "u", "e", " ", "1"}

\* Every string over the alphabet A of length n at most.
RECURSIVE StringsUpTo(_, _)
StringsUpTo(A, n) ==
    IF n = 0 THEN {<<>>}
    ELSE LET shorter == StringsUpTo(A, n - 1)
         IN shorter \cup {Append(p[1], p[2]) :
                            p \in {q \in shorter : Len(q) = n - 1} \X A}

Entry(key, value) == [key |-> key, value |-> value]

\* Every name with every sample and every secret-like value; the neutral name
\* with every short string over the alphabet and every numeric form.
InferEntries ==
    {Entry(p[1], p[2]) : p \in InferNames \X (SampleValues \cup SecretValues)}
    \cup {Entry(NeutralName, v) : v \in StringsUpTo(TypeAlphabet, MaxValLen) \cup NumericForms}

PairEntries ==
    {Entry(Str("PORT"), Str("3000")), Entry(Str("NODE_ENV"), Str("test")),
     Entry(Str("DEBUG"), Str("true")), Entry(Str("JWT_SECRET"), Repeat("x", 16))}

InferEnvs ==
    {<<>>}
    \cup {<<en>> : en \in InferEntries}
    \cup {<<p[1], p[2]>> : p \in {q \in PairEntries \X PairEntries : q[1].key # q[2].key}}

InitInfer ==
    /\ envVars \in InferEnvs
    /\ genSchema = None
    /\ schema = <<>>
    /\ codeVars = <<>>
    /\ analysis = None
    /\ calls = 0
    /\ legacy = None
    /\ RenderIdle /\ CheckIdle /\ LoaderIdle /\ CommandIdle

\* generateSchemaFromEnv(envVars)
GenerateSchema ==
    /\ genSchema' = Some(generateSchemaFromEnv(envVars))
    /\ UNCHANGED <<schema, envVars, codeVars, analysis, calls, legacy,
                 renderVars, checkVars, loaderVars,
                   commandVars>>

NextInfer == GenerateSchema

SpecInfer == InitInfer /\ [][NextInfer]_vars

(***************************************************************************)
(* The example generator of the schema mode: generateExampleValue and      *)
(* generateEnvExampleFromSchema.  A character outside ASCII is one element *)
(* of the string, written as its code point.                               *)
(***************************************************************************)
CheckMark == "U+2713"
Infinity == "U+221E"

\* String(n) of an integer.
RECURSIVE NumberText(_)
NumberText(n) ==
    IF n < 0 THEN <<"-">> \o NumberText(0 - n)
    ELSE IF n < 10 THEN <<Str("0123456789")[n + 1]>>
    ELSE NumberText(n \div 10) \o <<Str("0123456789")[(n % 10) + 1]>>

\* `${v}` of a value of the type of its field.
ValueText(type, v) ==
    CASE type = "number" -> NumberText(v)
      [] type = "boolean" -> IF v THEN Str("true") ELSE Str("false")
      [] OTHER -> v

\* parts.join(sep)
RECURSIVE Join(_, _)
Join(parts, sep) ==
    IF parts = <<>> THEN <<>>
    ELSE IF Len(parts) = 1 THEN parts[1]
    ELSE parts[1] \o sep \o Join(Tail(parts), sep)

generateExampleValue(fieldName, fieldDef) ==
    LET choicesText ==
            Str("# Options: ") \o
            Join([i \in 1..Len(The(fieldDef.choices)) |->
                    ValueText(fieldDef.type, The(fieldDef.choices)[i])], Str(" | "))
        pattern == <<"/">> \o Str(The(fieldDef.pattern)) \o <<"/">>
    IN IF fieldDef.default # None
       THEN Str("# Default: ") \o ValueText(fieldDef.type, The(fieldDef.default))
       ELSE IF fieldDef.type = "string"
       THEN IF fieldDef.choices # None THEN choicesText
            ELSE IF fieldDef.pattern # None
            THEN IF Includes(pattern, Str("email")) \/ Includes(pattern, Str("@"))
                 THEN Str("# Example: user@example.com")
                 ELSE IF Includes(pattern, Str("url")) \/ Includes(pattern, Str("http"))
                 THEN Str("# Example: https://example.com")
                 ELSE Str("# Must match: ") \o pattern
            ELSE IF Truthy(fieldDef.minLength) \/ Truthy(fieldDef.maxLength)
            THEN Str("# Length: ")
                 \o (IF Truthy(fieldDef.minLength)
                     THEN NumberText(The(fieldDef.minLength)) ELSE Str("0"))
                 \o <<"-">>
                 \o (IF Truthy(fieldDef.maxLength)
                     THEN NumberText(The(fieldDef.maxLength)) ELSE <<Infinity>>)
                 \o Str(" characters")
            ELSE IF Includes(fieldName, Str("URL"))
            THEN Str("# Example: https://example.com")
            ELSE IF Includes(fieldName, Str("SECRET")) \/ Includes(fieldName, Str("KEY"))
            THEN Str("# Example: your-secret-key-here")
            ELSE IF Includes(fieldName, Str("PASSWORD"))
            THEN Str("# Example: your-password-here")
            ELSE IF Includes(fieldName, Str("EMAIL"))
            THEN Str("# Example: user@example.com")
            ELSE IF Includes(fieldName, Str("HOST"))
            THEN Str("# Example: localhost")
            ELSE IF Includes(fieldName, Str("PATH"))
            THEN Str("# Example: /path/to/directory")
            ELSE Str("# String value required")
       ELSE IF fieldDef.type = "number"
       THEN IF fieldDef.choices # None THEN choicesText
            ELSE IF fieldDef.min # None \/ fieldDef.max # None
            THEN Str("# Range: ")
                 \o (IF fieldDef.min # None
                     THEN NumberText(The(fieldDef.min)) ELSE <<"-", Infinity>>)
                 \o Str(" to ")
                 \o (IF fieldDef.max # None
                     THEN NumberText(The(fieldDef.max)) ELSE <<Infinity>>)
            ELSE IF Includes(fieldName, Str("PORT")) THEN Str("# Example: 3000")
            ELSE IF Includes(fieldName, Str("TIMEOUT")) THEN Str("# Example: 5000")
            ELSE IF Includes(fieldName, Str("LIMIT")) THEN Str("# Example: 100")
            ELSE Str("# Number value required")
       ELSE IF fieldDef.type = "boolean"
       THEN IF fieldDef.choices # None THEN choicesText ELSE Str("# true or false")
       ELSE Str("# Value required")

AlreadySet == Str("# ") \o <<CheckMark>> \o Str(" Already set in .env")

\* A loop body that shows the default of a field even when the key is set.
ExampleLineDefaultFirst(key, fieldDef, env) ==
    IF env # None /\ Has(The(env), key) /\ fieldDef.default = None
    THEN key \o Str("= ") \o AlreadySet
    ELSE key \o Str("= ") \o generateExampleValue(key, fieldDef)

\* A loop body that copies the value of a key that is set.
ExampleLineWithValue(key, fieldDef, env) ==
    IF env # None /\ Has(The(env), key)
    THEN key \o <<"=">> \o Get(The(env), key).value
    ELSE key \o Str("= ") \o generateExampleValue(key, fieldDef)

\* The body of the two for loops: the line pushed for one key.
ExampleLine(key, fieldDef, env) ==
    LET example == generateExampleValue(key, fieldDef)
        hasValue == env # None /\ Has(The(env), key)
    IN IF hasValue
       THEN key \o Str("= ") \o AlreadySet
       ELSE key \o Str("= ") \o example

RequiredHeader == Str("# Required Variables")
OptionalHeader == Str("# Optional Variables (with defaults)")

\* The array lines of generateEnvExampleFromSchema when it returns.
ExampleLines(s, env) ==
    LET schemaKeys == ArraySort(Keys(s))
        requiredVars == SelectSeq(schemaKeys, LAMBDA k : Get(s, k).def.required = Some(TRUE))
        optionalVars == SelectSeq(schemaKeys, LAMBDA k : Get(s, k).def.required # Some(TRUE))
        LinesOf(ks) == [i \in 1..Len(ks) |-> ExampleLine(ks[i], Get(s, ks[i]).def, env)]
    IN <<Str("# Environment Variables"),
         Str("# Generated from schema - Copy this file to .env and fill in the values"),
         <<>>>>
       \o (IF requiredVars # <<>>
           THEN <<RequiredHeader>> \o LinesOf(requiredVars) \o <<<<>>>>
           ELSE <<>>)
       \o (IF optionalVars # <<>>
           THEN <<OptionalHeader>> \o LinesOf(optionalVars)
           ELSE <<>>)

generateEnvExampleFromSchema(s, env) ==
    Join(ExampleLines(s, env), <<"\n">>) \o <<"\n">>

(***************************************************************************)
(* Inputs of the example generator.                                        *)
(***************************************************************************)
FieldTypes == {"string", "number", "boolean"}

\* A falsy value of each type, and two values of each type.
FalsyValue(type) ==
    CASE type = "number" -> 0 [] type = "boolean" -> FALSE [] OTHER -> <<>>

TwoChoices(type) ==
    CASE type = "number" -> <<1, 2>>
      [] type = "boolean" -> <<TRUE, FALSE>>
      [] OTHER -> <<Str("a"), Str("b")>>

\* Every combination of the attributes a field definition may carry, for one
\* type: the object is open, so that any attribute may stand with any type.
RenderDefs(type) ==
    {[type |-> type, required |-> Some(TRUE), default |-> d, choices |-> c,
      pattern |-> p, minLength |-> a, maxLength |-> b, min |-> lo, max |-> hi] :
        d \in {None, Some(FalsyValue(type))},
        c \in {None, Some(TwoChoices(type))},
        p \in {None, Some(EmailPattern), Some(HttpPattern), Some(PostgresPattern)},
        a \in {None, Some(0), Some(8)},
        b \in {None, Some(0), Some(64)},
        lo \in {None, Some(0), Some(1)},
        hi \in {None, Some(65535)}}

RenderNames ==
    {NeutralName, Str("DATABASE_URL"), Str("JWT_SECRET"), Str("API_KEY"),
     Str("DB_PASSWORD"), Str("ADMIN_EMAIL"), Str("DB_HOST"), Str("LOG_PATH"),
     Str("PORT"), Str("TIMEOUT"), Str("RATE_LIMIT")}

\* A field of a type with nothing but required, of every name; the neutral
\* name with every combination of attributes.
OneFieldSchemas(type) ==
    {<<[key |-> n, def |-> FieldDef(type, Some(TRUE), None)]>> : n \in RenderNames}
    \cup {<<[key |-> NeutralName, def |-> d]>> : d \in RenderDefs(type)}

\* generateEnvExampleFromSchema is given a schema of one field, without a Map,
\* with an empty Map or with a Map that has the key; or a schema of several
\* fields and any Map over their names (has() does not read the values).
InitRender ==
    /\ \/ /\ \E type \in FieldTypes : schema \in OneFieldSchemas(type)
          /\ existingEnv \in {None, Some(<<>>),
                              Some(<<Entry(schema[1].key, <<>>)>>),
                              Some(<<Entry(schema[1].key, <<"v">>)>>)}
       \/ /\ schema \in SchemasOver(Names, MaxSchemaKeys)
          /\ existingEnv \in
                {None} \cup {Some([i \in 1..Len(ks) |-> Entry(ks[i], <<"v">>)]) :
                                ks \in KeySeqs(Names, MaxEnvKeys)}
    /\ rendered = None
    /\ envVars = <<>>
    /\ codeVars = <<>>
    /\ analysis = None
    /\ calls = 0
    /\ legacy = None
    /\ genSchema = None
    /\ CheckIdle /\ LoaderIdle /\ CommandIdle

\* generateEnvExampleFromSchema(schema, existingEnv)
Render ==
    /\ rendered = None
    /\ rendered' = Some(generateEnvExampleFromSchema(schema, existingEnv))
    /\ UNCHANGED <<schema, envVars, analysis, calls, codeVars, legacy, genSchema,
                   existingEnv, checkVars, loaderVars,
                   commandVars>>

NextRender == Render

SpecRender == InitRender /\ [][NextRender]_vars

(***************************************************************************)
(* The schema loader: findSchemaFile and loadSchema.                       *)
(***************************************************************************)
SCHEMA_FILE_PATTERNS ==
    <<"schema.env.ts", "schema.env.js", "env.schema.ts", "env.schema.js",
      "environment.schema.ts", "environment.schema.js">>

\* A finder that prefers the JavaScript file of each pair.
findSchemaFileJsFirst(files) ==
    LET order == <<"schema.env.js", "schema.env.ts", "env.schema.js", "env.schema.ts",
                   "environment.schema.js", "environment.schema.ts">>
        existing == SelectSeq(order, LAMBDA pattern : pattern \in files)
    IN IF existing # <<>> THEN Some(Head(existing)) ELSE None

\* findSchemaFile(basePath) in a directory that has the files: the path of
\* the first pattern that exists, or null ({}).
findSchemaFile(files) ==
    LET existing == SelectSeq(SCHEMA_FILE_PATTERNS, LAMBDA pattern : pattern \in files)
    IN IF existing # <<>> THEN Some(Head(existing)) ELSE None

\* A directory has any of the six files, and files of other names.
DirFiles == Range(SCHEMA_FILE_PATTERNS) \cup {"schema.ts", "package.json"}

InitFind ==
    /\ dirFiles \in SUBSET DirFiles
    /\ found = None
    /\ exports = <<>>
    /\ loaded = None
    /\ schema = <<>>
    /\ envVars = <<>>
    /\ codeVars = <<>>
    /\ analysis = None
    /\ calls = 0
    /\ legacy = None
    /\ genSchema = None
    /\ RenderIdle /\ CheckIdle /\ CommandIdle

\* findSchemaFile(basePath)
FindSchemaFile ==
    /\ found = None
    /\ found' = Some([path |-> findSchemaFile(dirFiles)])
    /\ UNCHANGED <<schema, envVars, analysis, calls, codeVars, legacy, genSchema,
                   dirFiles, exports, loaded, renderVars, checkVars,
                   commandVars>>

NextFind == FindSchemaFile

SpecFind == InitFind /\ [][NextFind]_vars

\* The values a module exports: null, a string, an array, or an object with
\* its properties in their order.
JsNull == [kind |-> "null", text |-> <<>>, props |-> <<>>]
JsString(text) == [kind |-> "string", text |-> text, props |-> <<>>]
JsArray == [kind |-> "array", text |-> <<>>, props |-> <<>>]
JsObject(props) == [kind |-> "object", text |-> <<>>, props |-> props]
Prop(key, value) == [key |-> key, value |-> value]

\* if (v): null, undefined and the empty string are falsy, objects are not.
ToBoolean(v) == v # None /\ The(v).kind # "null" /\ The(v) # JsString(<<>>)

\* obj[name]: the value of the property, or undefined ({}).
Member(props, name) ==
    IF \E i \in 1..Len(props) : props[i].key = name
    THEN Some(props[CHOOSE i \in 1..Len(props) : props[i].key = name].value)
    ELSE None

\* typeof v === 'object' && v.type && [...].includes(v.type), for a v that is
\* not null.
LooksLikeField(v) ==
    /\ v.kind \in {"object", "array"}
    /\ ToBoolean(Member(v.props, Str("type")))
    /\ The(Member(v.props, Str("type"))) \in
          {JsString(Str("string")), JsString(Str("number")), JsString(Str("boolean"))}

\* The test of lines 55-62 on an exported value: every() stops at the first
\* property that fails, and reading .type of a null property throws.
LooksLikeSchema(value) ==
    IF ~(value.kind = "object") THEN "no"
    ELSE LET n == Len(value.props)
             Stops(i) == value.props[i].value.kind = "null"
                         \/ ~LooksLikeField(value.props[i].value)
         IN IF n = 0 THEN "no"
            ELSE IF \A i \in 1..n : ~Stops(i) THEN "yes"
            ELSE LET first == CHOOSE i \in 1..n : Stops(i) /\ \A j \in 1..(i - 1) : ~Stops(j)
                 IN IF value.props[first].value.kind = "null" THEN "throws" ELSE "no"

\* How loadSchema ends: it returns a value, or throws the Error that wraps
\* the message of its cause.
Returned(value) == [threw |-> FALSE, value |-> value, cause |-> ""]
Thrown(cause) == [threw |-> TRUE, value |-> JsNull, cause |-> cause]

\* The for loop of lines 53-66 over the exports from the i-th on.
RECURSIVE ScanExports(_, _)
ScanExports(module, i) ==
    IF i > Len(module) THEN Thrown("No valid schema found in file")
    ELSE LET looks == LooksLikeSchema(module[i].value)
         IN IF looks = "yes" THEN Returned(module[i].value)
            ELSE IF looks = "throws" THEN Thrown("TypeError")
            ELSE ScanExports(module, i + 1)

\* loadSchema(filePath) once import() has given the module.
loadSchema(module) ==
    IF ToBoolean(Member(module, Str("default")))
    THEN Returned(The(Member(module, Str("default"))))
    ELSE IF ToBoolean(Member(module, Str("schema")))
    THEN Returned(The(Member(module, Str("schema"))))
    ELSE IF ToBoolean(Member(module, Str("envSchema")))
    THEN Returned(The(Member(module, Str("envSchema"))))
    ELSE ScanExports(module, 1)

(***************************************************************************)
(* Inputs of loadSchema.                                                   *)
(***************************************************************************)
MaxExports == 2

\* Two schemas, and values that are no schema: an empty object, an object of
\* strings, a field of an unknown type, a null field, an array, a string, the
\* empty string and null.
ExportValues ==
    LET FieldOf(type) == JsObject(<<Prop(Str("type"), JsString(Str(type)))>>)
    IN {JsObject(<<Prop(Str("PORT"), FieldOf("number"))>>),
        JsObject(<<Prop(Str("DEBUG"), FieldOf("boolean")),
                   Prop(Str("NAME"), FieldOf("string"))>>),
        JsObject(<<>>),
        JsObject(<<Prop(Str("notASchema"), JsString(Str("just a string")))>>),
        JsObject(<<Prop(Str("PORT"), FieldOf("number")),
                   Prop(Str("WHEN"), FieldOf("date"))>>),
        JsObject(<<Prop(Str("PORT"), JsNull)>>),
        JsArray,
        JsString(Str("x")),
        JsString(<<>>),
        JsNull}

ExportNames == {Str("default"), Str("schema"), Str("envSchema"), Str("config"), Str("other")}

ModulesOver(S, n) ==
    UNION {{[i \in 1..Len(ks) |-> Prop(ks[i], vs[i])] :
              vs \in [1..Len(ks) -> ExportValues]} : ks \in KeySeqs(S, n)}

InitLoad ==
    /\ exports \in ModulesOver(ExportNames, MaxExports)
    /\ loaded = None
    /\ dirFiles = {}
    /\ found = None
    /\ schema = <<>>
    /\ envVars = <<>>
    /\ codeVars = <<>>
    /\ analysis = None
    /\ calls = 0
    /\ legacy = None
    /\ genSchema = None
    /\ RenderIdle /\ CheckIdle /\ CommandIdle

\* loadSchema(filePath): import() throws, or gives the module and the export
\* patterns are tried; whatever is thrown is wrapped by the catch.
LoadSchema ==
    /\ loaded = None
    /\ \E importThrows \in BOOLEAN :
          loaded' = IF importThrows THEN Some(Thrown("import"))
                    ELSE Some(loadSchema(exports))
    /\ UNCHANGED <<schema, envVars, analysis, calls, codeVars, legacy, genSchema,
                   dirFiles, found, exports, renderVars, checkVars,
                   commandVars>>

NextLoad == LoadSchema

SpecLoad == InitLoad /\ [][NextLoad]_vars

(***************************************************************************)
(* The commands: getSchemaFile, check and sync-example (schema mode).      *)
(* A path is the name of a file of the working directory.                  *)
(***************************************************************************)
\* A getSchemaFile that detects a schema file when the given path is not
\* there.
getSchemaFileFallingBack(schemaPath, files) ==
    LET schemaFile == IF schemaPath # None /\ The(schemaPath) \in files
                      THEN schemaPath
                      ELSE findSchemaFile(files)
    IN IF schemaFile = None
       THEN [threw |-> TRUE, path |-> "", message |-> <<"No schema file found.">>]
       ELSE [threw |-> FALSE, path |-> The(schemaFile), message |-> <<>>]

\* getSchemaFile(schemaPath): the path it returns, or the lines of the
\* message of the Error it throws.
getSchemaFile(schemaPath, files) ==
    IF schemaPath # None /\ The(schemaPath) # ""
    THEN IF The(schemaPath) \notin files
         THEN [threw |-> TRUE, path |-> "",
               message |-> <<"Schema file not found: " \o The(schemaPath)>>]
         ELSE [threw |-> FALSE, path |-> The(schemaPath), message |-> <<>>]
    ELSE LET schemaFile == findSchemaFile(files)
         IN IF schemaFile = None
            THEN [threw |-> TRUE, path |-> "",
                  message |->
                    <<"No schema file found. Please create one of the following files:">>
                    \o [i \in 1..Len(SCHEMA_FILE_PATTERNS) |->
                          "  - " \o SCHEMA_FILE_PATTERNS[i]]
                    \o <<"",
                         "Example schema.env.ts:",
                         "export default {",
                         "  DATABASE_URL: { type: 'string', required: true },",
                         "  PORT: { type: 'number', default: 3000 },",
                         "  DEBUG: { type: 'boolean', default: false },",
                         "} as const;">>]
            ELSE [threw |-> FALSE, path |-> The(schemaFile), message |-> <<>>]

\* loadSchemaFile(options.schema) throws: getSchemaFile does, or loadSchema
\* does on the file it names.
LoadThrows == getSchemaFile(options.schema, dirFiles).threw \/ ~importOk

\* getSchemaFile(options.schema)
GetSchemaFile ==
    /\ got = None
    /\ got' = Some(getSchemaFile(options.schema, dirFiles))
    /\ UNCHANGED <<schema, envVars, analysis, calls, codeVars, legacy, genSchema,
                   renderVars, checkVars, loaderVars,
                   options, importOk, outFile, syncRun, genRun>>

\* typedEnv.parse(envObject, schema) returns (it does not throw): a field
\* that is absent passes unless it is required and has no default; a field
\* that is present passes when its value does.
ParsePasses(s, e) ==
    \A i \in 1..Len(s) :
        IF Has(e, s[i].key)
        THEN ValidatesField(s[i].def, Get(e, s[i].key).value)
        ELSE ~(s[i].def.required = Some(TRUE) /\ s[i].def.default = None)

\* What check prints between its validation and its exit, in the order of
\* the printing: the outcome of the validation, a line for every missing,
\* extra and present key with the value it shows, and the summary.
ReportLines(s, e, passed, result) ==
    LET Line(section, key, shown) == [section |-> section, key |-> key, shown |-> shown]
        valueDisplay(key) ==
            IF /\ Get(s, key).def.type = "string"
               /\ \/ Includes(key, Str("SECRET"))
                  \/ Includes(key, Str("PASSWORD"))
                  \/ Includes(key, Str("KEY"))
            THEN Str("***")
            ELSE Get(e, key).value
    IN <<Line("validation", <<>>, IF passed THEN Str("passed") ELSE Str("failed"))>>
       \o [i \in 1..Len(result.missing) |->
             Line("missing", result.missing[i], Str(Get(s, result.missing[i]).def.type))]
       \o [i \in 1..Len(result.extra) |->
             Line("extra", result.extra[i], Get(e, result.extra[i]).value)]
       \o [i \in 1..Len(result.present) |->
             Line("present", result.present[i], valueDisplay(result.present[i]))]
       \o <<Line("summary", <<>>, NumberText(result.total))>>

\* How a run of check ends: the exit status of the process, the step that
\* ended it, what the report was made of, and what was printed before.
CheckEnded(status, step, passed, result, output) ==
    [exit |-> status, step |-> step, validationPassed |-> passed,
     analysis |-> result, output |-> output]

\* Names of variables for check: one of them is a secret by its name.
CheckNames == {Str("A"), Str("API_KEY"), Str("a")}

InitCheck ==
    /\ schema \in SchemasOver(CheckNames, MaxSchemaKeys)
    /\ envVars \in EnvsOver(CheckNames, MaxEnvKeys)
    /\ envFile \in BOOLEAN
    /\ importOk \in BOOLEAN
    /\ dirFiles = {"schema.env.js"}
    /\ options = NoOptions
    /\ checkRun = None
    /\ codeVars = <<>>
    /\ analysis = None
    /\ calls = 0
    /\ legacy = None
    /\ genSchema = None
    /\ found = None /\ exports = <<>> /\ loaded = None
    /\ got = None /\ outFile = None /\ syncRun = None /\ genRun = None
    /\ RenderIdle

\* A check that sets hasErrors for a failed validation only.
CheckIgnoringMissing ==
    /\ checkRun = None
    /\ checkRun' =
         IF LoadThrows THEN Some(CheckEnded(1, "load", None, None, <<>>))
         ELSE IF ~envFile THEN Some(CheckEnded(1, "env", None, None, <<>>))
         ELSE LET result == analyzeEnvironmentVariables(schema, envVars)
                  passed == ParsePasses(schema, envVars)
              IN Some(CheckEnded(IF ~passed THEN 1 ELSE 0, "report", Some(passed),
                                 Some(result),
                                 ReportLines(schema, envVars, passed, result)))
    /\ UNCHANGED <<schema, envVars, analysis, calls, codeVars, legacy, genSchema,
                   envFile, renderVars, loaderVars, commandVars>>

\* A check that exits as soon as the validation has failed.
CheckFailFast ==
    /\ checkRun = None
    /\ checkRun' =
         IF LoadThrows THEN Some(CheckEnded(1, "load", None, None, <<>>))
         ELSE IF ~envFile THEN Some(CheckEnded(1, "env", None, None, <<>>))
         ELSE LET result == analyzeEnvironmentVariables(schema, envVars)
                  passed == ParsePasses(schema, envVars)
                  hasErrors == ~passed \/ Len(result.missing) > 0
                  lines == ReportLines(schema, envVars, passed, result)
              IN Some(CheckEnded(IF hasErrors THEN 1 ELSE 0, "report",
                                 Some(passed), Some(result),
                                 IF passed THEN lines ELSE <<lines[1]>>))
    /\ UNCHANGED <<schema, envVars, analysis, calls, codeVars, legacy, genSchema,
                   envFile, renderVars, loaderVars, commandVars>>

\* check(options): loadSchemaFile throws or gives the schema; without the
\* .env file the command exits with 1; otherwise it validates, reconciles,
\* reports, and exits with 1 when hasErrors is set.
Check ==
    /\ checkRun = None
    /\ checkRun' =
         IF LoadThrows THEN Some(CheckEnded(1, "load", None, None, <<>>))
         ELSE IF ~envFile THEN Some(CheckEnded(1, "env", None, None, <<>>))
         ELSE LET result == analyzeEnvironmentVariables(schema, envVars)
                  passed == ParsePasses(schema, envVars)
                  hasErrors == ~passed \/ Len(result.missing) > 0
              IN Some(CheckEnded(IF hasErrors THEN 1 ELSE 0, "report",
                                 Some(passed), Some(result),
                                 ReportLines(schema, envVars, passed, result)))
    /\ UNCHANGED <<schema, envVars, analysis, calls, codeVars, legacy, genSchema,
                   envFile, renderVars, loaderVars, commandVars>>

NextCheck == Check

SpecCheck == InitCheck /\ [][NextCheck]_vars

\* A sync-example that appends to the output file it finds.
SyncExampleAppending ==
    /\ calls < MaxCalls
    /\ calls' = calls + 1
    /\ IF LoadThrows
       THEN /\ syncRun' = Some([exit |-> 1, step |-> "load", analysis |-> None])
            /\ outFile' = outFile
       ELSE LET env == IF envFile THEN envVars ELSE <<>>
                exampleContent == generateEnvExampleFromSchema(schema, Some(env))
            IN /\ syncRun' = Some([exit |-> 0, step |-> "done",
                                   analysis |-> Some(analyzeEnvironmentVariables(schema, env))])
               /\ outFile' = IF outFile = None THEN Some(exampleContent)
                             ELSE Some(The(outFile) \o exampleContent)
    /\ UNCHANGED <<schema, envVars, analysis, codeVars, legacy, genSchema,
                   renderVars, checkVars, loaderVars, options, importOk, got, genRun>>

\* syncExample(options) of the schema mode: loadSchemaFile throws and the
\* catch exits with 1; or the .env file is parsed (an empty Map when it is
\* not there), reconciled and reported, and the example is written to the
\* output file, whatever was there.
SyncExample ==
    /\ calls < MaxCalls
    /\ calls' = calls + 1
    /\ IF LoadThrows
       THEN /\ syncRun' = Some([exit |-> 1, step |-> "load", analysis |-> None])
            /\ outFile' = outFile
       ELSE LET env == IF envFile THEN envVars ELSE <<>>
                exampleContent == generateEnvExampleFromSchema(schema, Some(env))
            IN /\ syncRun' = Some([exit |-> 0, step |-> "done",
                                   analysis |-> Some(analyzeEnvironmentVariables(schema, env))])
               /\ outFile' = Some(exampleContent)
    /\ UNCHANGED <<schema, envVars, analysis, codeVars, legacy, genSchema,
                   renderVars, checkVars, loaderVars, options, importOk, got, genRun>>

\* sync-example of the schema mode on any schema and any .env file, with
\* or without an output file from before; the schema file is auto-detected.
InitSync ==
    /\ schema \in SchemasOver({Str("A"), Str("a")}, MaxSchemaKeys)
    /\ envVars \in EnvsOver(Names, MaxEnvKeys)
    /\ envFile \in BOOLEAN
    /\ importOk \in BOOLEAN
    /\ outFile \in {None, Some(Str("A=1"))}
    /\ dirFiles = {"schema.env.js"}
    /\ options = NoOptions
    /\ codeVars = <<>>
    /\ analysis = None
    /\ calls = 0
    /\ legacy = None
    /\ genSchema = None
    /\ found = None /\ exports = <<>> /\ loaded = None
    /\ got = None /\ syncRun = None /\ genRun = None /\ checkRun = None
    /\ RenderIdle

NextSync == SyncExample

SpecSync == InitSync /\ [][NextSync]_vars

\* getSchemaFile and the commands that need a schema, in a directory with
\* any of the files, with and without a --schema option.
InitGet ==
    /\ dirFiles \in SUBSET DirFiles
    /\ options \in {[NoOptions EXCEPT !.schema = path] :
                      path \in {None, Some(""), Some("schema.ts"),
                                Some("schema.env.js"), Some("my.schema.js")}}
    /\ importOk \in BOOLEAN
    /\ schema = <<>>
    /\ envVars = <<>>
    /\ codeVars = <<>>
    /\ analysis = None
    /\ calls = 0
    /\ legacy = None
    /\ genSchema = None
    /\ found = None /\ exports = <<>> /\ loaded = None
    /\ got = None /\ outFile = None /\ syncRun = None /\ genRun = None
    /\ RenderIdle /\ CheckIdle

NextGet == GetSchemaFile \/ Check \/ SyncExample

SpecGet == InitGet /\ [][NextGet]_vars

(***************************************************************************)
(* The generate-schema command.                                            *)
(***************************************************************************)
\* generateSchemaFileContent(schema): the text of the schema file.
generateSchemaFileContent(s) ==
    LET keys == ArraySort(Keys(s))
        FieldLines(i) ==
            LET key == keys[i]
                fieldDef == Get(s, key).def
                Quoted(c) == <<"'">> \o c \o <<"'">>
                Optional(present, line) == IF present THEN <<line>> ELSE <<>>
            IN <<Str("  ") \o key \o Str(": {"),
                 Str("    type: '") \o Str(fieldDef.type) \o Str("',"),
                 Str("    required: ") \o
                   (IF fieldDef.required = None THEN Str("undefined")
                    ELSE ValueText("boolean", The(fieldDef.required))) \o Str(",")>>
               \o Optional(fieldDef.pattern # None,
                    Str("    pattern: /") \o Str(The(fieldDef.pattern)) \o Str("/,"))
               \o Optional(fieldDef.minLength # None,
                    Str("    minLength: ") \o NumberText(The(fieldDef.minLength)) \o Str(","))
               \o Optional(fieldDef.maxLength # None,
                    Str("    maxLength: ") \o NumberText(The(fieldDef.maxLength)) \o Str(","))
               \o Optional(fieldDef.min # None,
                    Str("    min: ") \o NumberText(The(fieldDef.min)) \o Str(","))
               \o Optional(fieldDef.max # None,
                    Str("    max: ") \o NumberText(The(fieldDef.max)) \o Str(","))
               \o Optional(fieldDef.choices # None,
                    Str("    choices: [") \o
                    Join([j \in 1..Len(The(fieldDef.choices)) |->
                            Quoted(The(fieldDef.choices)[j])], Str(", ")) \o Str("],"))
               \o Optional(fieldDef.default # None,
                    Str("    default: ") \o
                    (IF fieldDef.type = "string" THEN Quoted(The(fieldDef.default))
                     ELSE ValueText(fieldDef.type, The(fieldDef.default))) \o Str(","))
               \o <<Str("  }") \o (IF i < Len(keys) THEN Str(",") ELSE <<>>)>>
        RECURSIVE FieldsFrom(_)
        FieldsFrom(i) == IF i > Len(keys) THEN <<>> ELSE FieldLines(i) \o FieldsFrom(i + 1)
        lines ==
            <<Str("// Environment variable schema"),
              Str("// Generated from .env file - Edit this file to customize validation rules"),
              Str("//"),
              Str("// For more information on schema options, see:"),
              Str("// https://github.com/raxraj/typed-environment"),
              <<>>,
              Str("module.exports = {")>>
            \o FieldsFrom(1)
            \o <<Str("};"), <<>>>>
    IN Join(lines, <<"\n">>)

\* How a run of generate-schema ends.
GenerateEnded(status, step) == [exit |-> status, step |-> step]

\* The files generate-schema can meet, and the paths --output can name.
GenFiles == {"schema.env.js", "env.schema.ts", "out.js", "README.md"}
OutputPaths == {None, Some(""), Some("schema.env.js"), Some("out.js")}

GenEnvs ==
    LET entries == PairEntries \cup {Entry(Str("API_URL"), Str("https://example.com"))}
    IN {<<>>}
       \cup {<<en>> : en \in entries}
       \cup {<<p[1], p[2]>> : p \in {q \in PairEntries \X PairEntries : q[1].key # q[2].key}}

\* options.output || path.join(process.cwd(), 'schema.env.js')
OutputPath ==
    IF options.output # None /\ The(options.output) # ""
    THEN The(options.output)
    ELSE "schema.env.js"

\* The output file holds a text exactly when it is in the directory.
InitGen ==
    /\ dirFiles \in SUBSET GenFiles
    /\ options \in {[schema |-> None, output |-> o, force |-> f] :
                      o \in OutputPaths, f \in BOOLEAN}
    /\ outFile = IF OutputPath \in dirFiles THEN Some(Str("module.exports = {};")) ELSE None
    /\ envFile \in BOOLEAN
    /\ envVars \in GenEnvs
    /\ importOk = TRUE
    /\ schema = <<>>
    /\ codeVars = <<>>
    /\ analysis = None
    /\ calls = 0
    /\ legacy = None
    /\ genSchema = None
    /\ checkRun = None
    /\ found = None /\ exports = <<>> /\ loaded = None
    /\ got = None /\ syncRun = None /\ genRun = None
    /\ RenderIdle

\* A generate-schema that does not look for a schema file it could detect.
GenerateSchemaOverDetected ==
    /\ calls < MaxCalls
    /\ calls' = calls + 1
    /\ LET fileExistedBefore == OutputPath \in dirFiles
       IN IF fileExistedBefore /\ ~options.force
          THEN genRun' = Some(GenerateEnded(1, "output")) /\ UNCHANGED <<dirFiles, outFile>>
          ELSE IF ~envFile
          THEN genRun' = Some(GenerateEnded(1, "env")) /\ UNCHANGED <<dirFiles, outFile>>
          ELSE IF Len(envVars) = 0
          THEN genRun' = Some(GenerateEnded(1, "empty")) /\ UNCHANGED <<dirFiles, outFile>>
          ELSE /\ genRun' = Some(GenerateEnded(0, "written"))
               /\ outFile' = Some(generateSchemaFileContent(generateSchemaFromEnv(envVars)))
               /\ dirFiles' = dirFiles \cup {OutputPath}
    /\ UNCHANGED <<schema, envVars, analysis, codeVars, legacy, genSchema,
                   renderVars, checkVars, found, exports, loaded,
                   options, importOk, got, syncRun>>

\* generateSchema(options): the four checks that exit with 1, in their
\* order, then the schema of the variables written to the output path.
GenerateSchemaCommand ==
    /\ calls < MaxCalls
    /\ calls' = calls + 1
    /\ LET fileExistedBefore == OutputPath \in dirFiles
           noOutput == ~(options.output # None /\ The(options.output) # "")
           existingSchema == findSchemaFile(dirFiles)
       IN IF fileExistedBefore /\ ~options.force
          THEN genRun' = Some(GenerateEnded(1, "output")) /\ UNCHANGED <<dirFiles, outFile>>
          ELSE IF noOutput /\ existingSchema # None /\ ~options.force
          THEN genRun' = Some(GenerateEnded(1, "detected")) /\ UNCHANGED <<dirFiles, outFile>>
          ELSE IF ~envFile
          THEN genRun' = Some(GenerateEnded(1, "env")) /\ UNCHANGED <<dirFiles, outFile>>
          ELSE IF Len(envVars) = 0
          THEN genRun' = Some(GenerateEnded(1, "empty")) /\ UNCHANGED <<dirFiles, outFile>>
          ELSE /\ genRun' = Some(GenerateEnded(0, "written"))
               /\ outFile' = Some(generateSchemaFileContent(generateSchemaFromEnv(envVars)))
               /\ dirFiles' = dirFiles \cup {OutputPath}
    /\ UNCHANGED <<schema, envVars, analysis, codeVars, legacy, genSchema,
                   renderVars, checkVars, found, exports, loaded,
                   options, importOk, got, syncRun>>

NextGen == GenerateSchemaCommand

SpecGen == InitGen /\ [][NextGen]_vars

(***************************************************************************)
(* Properties of the reconciler.                                           *)
(***************************************************************************)
SchemaKeySet == Range(Keys(schema))
EnvKeySet == Range(Keys(envVars))
Analyzed == analysis # None
Result == The(analysis)
MissingSet == Range(Result.missing)
ExtraSet == Range(Result.extra)
PresentSet == Range(Result.present)

IsAscending(list) == \A i \in 1..(Len(list) - 1) : StrLess(list[i], list[i + 1])

\* C1: present and missing are disjoint, every name of present or missing is a
\* schema key, no name of extra is a schema key, and no name is in more than
\* one of the three sets.
C1_Partition ==
    Analyzed =>
        /\ PresentSet \cap MissingSet = {}
        /\ (PresentSet \cup MissingSet) \subseteq SchemaKeySet
        /\ ExtraSet \cap SchemaKeySet = {}
        /\ ExtraSet \cap PresentSet = {}
        /\ ExtraSet \cap MissingSet = {}

C1_Witness ==
    /\ Analyzed
    /\ PresentSet # {}
    /\ MissingSet # {}
    /\ ExtraSet # {}

\* C2: present is exactly keys(S) \cap keys(E), whatever the values are.
C2_PresentExact == Analyzed => PresentSet = SchemaKeySet \cap EnvKeySet

C2_Witness ==
    /\ Analyzed
    /\ \E i \in 1..Len(envVars) :
         /\ envVars[i].value = <<>>
         /\ envVars[i].key \in PresentSet
    /\ \E i \in 1..Len(envVars) : envVars[i].key \notin PresentSet

\* C3: missing is exactly the schema keys absent from the environment whose
\* definition has required = true; an absent key that is not required (one
\* that only declares a default) is not in missing.
C3_MissingExact ==
    Analyzed =>
        MissingSet = {k \in SchemaKeySet :
                        k \notin EnvKeySet /\ Get(schema, k).def.required = Some(TRUE)}

C3_Witness ==
    /\ Analyzed
    /\ \E i \in 1..Len(schema) :
         /\ schema[i].def.required = None
         /\ schema[i].def.default # None
         /\ schema[i].key \notin EnvKeySet
         /\ schema[i].key \notin MissingSet
    /\ MissingSet # {}

\* C4: extra is exactly keys(E) \ keys(S), and total is the number of schema
\* keys whatever the environment holds.
C4_ExtraAndTotal ==
    Analyzed =>
        /\ ExtraSet = EnvKeySet \ SchemaKeySet
        /\ Result.total = Len(schema)

\* Scenario D: two environment entries, one of them the only (required) schema key.
C4_Witness ==
    /\ Analyzed
    /\ Len(envVars) = 2
    /\ Len(schema) = 1
    /\ schema[1].def.required = Some(TRUE)
    /\ Result.present = <<schema[1].key>>
    /\ Result.missing = <<>>
    /\ Len(Result.extra) = 1
    /\ Result.total = 1

\* C5: each of missing, extra and present is in ascending code-unit order and
\* without a repeated name, whatever the insertion orders were.
C5_Sorted ==
    Analyzed =>
        /\ IsAscending(Result.missing)
        /\ IsAscending(Result.extra)
        /\ IsAscending(Result.present)

\* The schema keys were inserted in descending order and are all present.
C5_Witness ==
    /\ Analyzed
    /\ Len(Result.present) = 2
    /\ StrLess(schema[2].key, schema[1].key)

CodeSet == Range(codeVars)
Synced == legacy # None

\* C7: in legacy mode the reported missing set is exactly R \ keys(E) and the
\* reported unused set is exactly keys(E) \ R.
C7_LegacySets ==
    Synced =>
        /\ Range(The(legacy).missingVars) = CodeSet \ EnvKeySet
        /\ Range(The(legacy).unusedVars) = EnvKeySet \ CodeSet

\* Scenario E: two referenced names, one of them in the environment, with an
\* empty value at that.
C7_Witness ==
    /\ Synced
    /\ Len(codeVars) = 2
    /\ Len(envVars) = 1
    /\ envVars[1].key \in CodeSet
    /\ envVars[1].value = <<>>
    /\ Len(The(legacy).missingVars) = 1
    /\ The(legacy).unusedVars = <<>>

\* C24: legacy mode is the reconciliation of schema mode: its missing and
\* its unused names are, element for element and in the same sorted order,
\* the missing and the extra list of analyzeEnvironmentVariables on the
\* schema that makes every referenced name a required field.
C24_LegacyIsReconciliation ==
    Synced =>
        LET required == [i \in 1..Len(codeVars) |->
                           [key |-> codeVars[i],
                            def |-> FieldDef("string", Some(TRUE), None)]]
            result == analyzeEnvironmentVariables(required, envVars)
        IN /\ The(legacy).missingVars = result.missing
           /\ The(legacy).unusedVars = result.extra

(***************************************************************************)
(* Properties of the inference engine.                                     *)
(***************************************************************************)
Generated == genSchema # None
Inferred == The(genSchema)
IsTrueOrFalse(v) == v = Str("true") \/ v = Str("false")

\* C8: the field definition inferred for a (name, value) accepts that value:
\* a schema generated from a .env file validates that same .env file.
C8_RoundTrip ==
    Generated =>
        \A i \in 1..Len(envVars) : ValidatesField(Inferred[i].def, envVars[i].value)

\* C9, as claimed: boolean when the TRIMMED value is true or false whatever
\* its case, else number when the value is a numeric literal and not blank,
\* else string.
C9_TypeOfTrimmed ==
    Generated =>
        \A i \in 1..Len(envVars) :
            LET v == envVars[i].value
                type == Inferred[i].def.type
            IN IF IsTrueOrFalse(ToLowerCase(Trim(v))) THEN type = "boolean"
               ELSE IF ~NumberIsNaN(v) /\ Trim(v) # <<>> THEN type = "number"
               ELSE type = "string"

\* C9, amended: boolean when the value AS IT IS (not trimmed) is true or false
\* whatever its case, else number when the value is a numeric literal and not
\* blank, else string; true is never a string, a blank value never a number.
C9_TypeInference ==
    Generated =>
        \A i \in 1..Len(envVars) :
            LET v == envVars[i].value
                type == Inferred[i].def.type
            IN /\ IF IsTrueOrFalse(ToLowerCase(v)) THEN type = "boolean"
                  ELSE IF ~NumberIsNaN(v) /\ Trim(v) # <<>> THEN type = "number"
                  ELSE type = "string"
               /\ v = Str("true") => type # "string"
               /\ Trim(v) = <<>> => type # "number"

\* A value that is true but for the white space before it has been inferred
\* to be a string.
C9_Witness ==
    /\ Generated
    /\ Len(envVars) = 1
    /\ envVars[1].value = Str(" true")
    /\ Inferred[1].def.type = "string"

\* C10: for a string-typed variable whose name contains SECRET, KEY or TOKEN,
\* a value of length L >= 16 gets minLength min(L, 32), which lies in 16..32,
\* and a shorter value gets no minLength.
C10_SecretMinLength ==
    Generated =>
        \A i \in 1..Len(envVars) :
            LET key == envVars[i].key
                L == Len(envVars[i].value)
                def == Inferred[i].def
            IN (/\ def.type = "string"
                /\ \/ Includes(key, Str("SECRET"))
                   \/ Includes(key, Str("KEY"))
                   \/ Includes(key, Str("TOKEN")))
               => IF L >= 16
                  THEN /\ def.minLength = Some(IF L <= 32 THEN L ELSE 32)
                       /\ The(def.minLength) \in 16..32
                  ELSE def.minLength = None

\* A secret of 50 characters gets minLength 32.
C10_Witness ==
    /\ Generated
    /\ Len(envVars) = 1
    /\ envVars[1].key = Str("JWT_SECRET")
    /\ Len(envVars[1].value) = 50
    /\ Inferred[1].def.type = "string"
    /\ Inferred[1].def.minLength = Some(32)

\* C11: for a string-typed variable whose name contains ENV, a value that is,
\* in lower case, development, staging, production or test gets the choices
\* [development, staging, production], in this order and without test; any
\* other value of such a name gets no ENV choices.
C11_EnvChoices ==
    Generated =>
        \A i \in 1..Len(envVars) :
            LET key == envVars[i].key
                lower == ToLowerCase(envVars[i].value)
                def == Inferred[i].def
                three == <<Str("development"), Str("staging"), Str("production")>>
            IN (def.type = "string" /\ Includes(key, Str("ENV")))
               => IF lower \in Range(three) \cup {Str("test")}
                  THEN def.choices = Some(three)
                  ELSE def.choices # Some(three)

\* NODE_ENV=test has been given the three choices, test not among them.
C11_Witness ==
    /\ Generated
    /\ Len(envVars) = 1
    /\ envVars[1] = Entry(Str("NODE_ENV"), Str("test"))
    /\ Inferred[1].def.type = "string"
    /\ Inferred[1].def.choices # None
    /\ Str("test") \notin Range(The(Inferred[1].def.choices))

\* C12: every number-typed variable whose name contains PORT gets min = 1 and
\* max = 65535, whatever else (TIMEOUT, LIMIT, MAX) its name contains.
C12_PortBounds ==
    Generated =>
        \A i \in 1..Len(envVars) :
            (Inferred[i].def.type = "number" /\ Includes(envVars[i].key, Str("PORT")))
            => /\ Inferred[i].def.min = Some(1)
               /\ Inferred[i].def.max = Some(65535)

\* C13: generateSchemaFromEnv returns a schema for every environment: one
\* field definition per entry, under the key of the entry, so that the key
\* set of the schema is the key set of the environment; every definition has
\* required = true.
C13_OneDefPerEntry ==
    Generated =>
        /\ Len(Inferred) = Len(envVars)
        /\ \A i \in 1..Len(envVars) :
              /\ Inferred[i].key = envVars[i].key
              /\ Inferred[i].def.required = Some(TRUE)
              /\ Inferred[i].def.type \in {"string", "number", "boolean"}
        /\ Range(Keys(Inferred)) = Range(Keys(envVars))

\* A schema of two definitions has been inferred from two entries, one of
\* each of two types.
C13_Witness ==
    /\ Generated
    /\ Len(envVars) = 2
    /\ Len(Inferred) = 2
    /\ Inferred[1].def.type # Inferred[2].def.type
    /\ Inferred[1].def.required = Some(TRUE)

\* C25: the heuristics are additive and independent of their order: in the
\* field definition of every variable, every rule that matches the name and
\* the value has left the attribute it attaches, whatever other rules match
\* (the scheme pattern and the email pattern; min of PORT, of TIMEOUT and of
\* LIMIT or MAX).
C25_AdditiveRules ==
    Generated =>
        \A i \in 1..Len(envVars) :
            LET key == envVars[i].key
                value == envVars[i].value
                def == Inferred[i].def
                Rule(matches, attribute, attached) ==
                    [matches |-> matches, attribute |-> attribute, attached |-> attached]
                stringRules ==
                    {Rule(/\ Includes(key, Str("URL")) \/ Includes(key, Str("ENDPOINT"))
                          /\ UrlPattern(value) # None,
                          "pattern", UrlPattern(value)),
                     Rule(Includes(key, Str("EMAIL")) /\ Includes(value, Str("@")),
                          "pattern", Some(EmailPattern))}
                numberRules ==
                    {Rule(Includes(key, Str("PORT")), "min", Some(1)),
                     Rule(Includes(key, Str("PORT")), "max", Some(65535)),
                     Rule(Includes(key, Str("TIMEOUT")), "min", Some(0)),
                     Rule(Includes(key, Str("LIMIT")) \/ Includes(key, Str("MAX")),
                          "min", Some(1))}
                rules == IF def.type = "string" THEN stringRules
                         ELSE IF def.type = "number" THEN numberRules
                         ELSE {}
            IN \A r \in rules : r.matches => def[r.attribute] = r.attached

\* C30: every inferred field definition is well formed for its type: a
\* boolean field carries type and required only; a number field carries no
\* pattern, minLength, maxLength or choices; a string field carries no min
\* or max; min is at most max when both are set; none carries a default.
C30_WellFormed ==
    Generated =>
        \A i \in 1..Len(Inferred) :
            LET def == Inferred[i].def
                Absent(attributes) == \A a \in attributes : def[a] = None
            IN /\ def.type \in {"string", "number", "boolean"}
               /\ def.required = Some(TRUE)
               /\ def.default = None
               /\ def.type = "boolean" =>
                    Absent({"pattern", "minLength", "maxLength", "min", "max", "choices"})
               /\ def.type = "number" =>
                    Absent({"pattern", "minLength", "maxLength", "choices"})
               /\ def.type = "string" => Absent({"min", "max"})
               /\ (def.min # None /\ def.max # None) => The(def.min) <= The(def.max)

\* A number with both bounds next to a string with a length bound, each
\* under a name that other rules match as well.
C30_Witness ==
    /\ Generated
    /\ Len(Inferred) = 2
    /\ \E i, j \in 1..2 :
         /\ Inferred[i].def.type = "number"
         /\ Inferred[i].def.min = Some(1) /\ Inferred[i].def.max = Some(65535)
         /\ Inferred[j].def.type = "string"
         /\ Inferred[j].def.minLength = Some(16)

(***************************************************************************)
(* Properties of the example generator.                                    *)
(***************************************************************************)
Rendered == rendered # None

\* text.split("\n")
RECURSIVE SplitLines(_)
SplitLines(text) ==
    IF \A i \in 1..Len(text) : text[i] # "\n" THEN <<text>>
    ELSE LET n == CHOOSE i \in 1..Len(text) :
                      text[i] = "\n" /\ \A j \in 1..(i - 1) : text[j] # "\n"
         IN <<SubSeq(text, 1, n - 1)>> \o SplitLines(SubSeq(text, n + 1, Len(text)))

DocLines == SplitLines(The(rendered))

\* The position of a line in the document, 0 when it is not there.
LineAt(line) ==
    IF \E i \in 1..Len(DocLines) : DocLines[i] = line
    THEN CHOOSE i \in 1..Len(DocLines) : DocLines[i] = line
    ELSE 0

\* The position of the KEY= line of a schema key.
KeyLineAt(key) ==
    CHOOSE i \in 1..Len(DocLines) : StartsWith(DocLines[i], key \o <<"=">>)

InRequiredGroup(key) ==
    /\ LineAt(RequiredHeader) > 0
    /\ KeyLineAt(key) > LineAt(RequiredHeader)
    /\ LineAt(OptionalHeader) > 0 => KeyLineAt(key) < LineAt(OptionalHeader)

InOptionalGroup(key) ==
    /\ LineAt(OptionalHeader) > 0
    /\ KeyLineAt(key) > LineAt(OptionalHeader)

\* C14: a schema key is in the required group of the rendered document
\* exactly when its definition has required = true and no default, and in
\* the optional group when it has a default or required is false; the
\* required group comes before the optional group, and the keys of a group
\* are in ascending order.
C14_Groups ==
    Rendered =>
        /\ \A i \in 1..Len(schema) :
              LET def == schema[i].def
              IN /\ InRequiredGroup(schema[i].key)
                      <=> (def.required = Some(TRUE) /\ def.default = None)
                 /\ (def.default # None \/ def.required = Some(FALSE))
                      => InOptionalGroup(schema[i].key)
        /\ (LineAt(RequiredHeader) > 0 /\ LineAt(OptionalHeader) > 0)
              => LineAt(RequiredHeader) < LineAt(OptionalHeader)
        /\ \A i, j \in 1..Len(schema) :
              (/\ InRequiredGroup(schema[i].key) <=> InRequiredGroup(schema[j].key)
               /\ KeyLineAt(schema[i].key) < KeyLineAt(schema[j].key))
              => StrLess(schema[i].key, schema[j].key)

\* C15: the line of a schema key that the given Map has is the key, an empty
\* value and the already set annotation, whatever the field declares; when
\* the Map lacks the key, or no Map is given, no line has that annotation.
C15_AlreadySet ==
    Rendered =>
        \A i \in 1..Len(schema) :
            LET key == schema[i].key
                line == DocLines[KeyLineAt(key)]
            IN IF existingEnv # None /\ Has(The(existingEnv), key)
               THEN line = key \o Str("= # ") \o <<CheckMark>> \o Str(" Already set in .env")
               ELSE ~Includes(line, Str("Already set"))

\* A key that the Map has, whose field declares a default, choices, a pattern
\* and bounds, has been rendered as already set.
C15_Witness ==
    /\ Rendered
    /\ Len(schema) = 1
    /\ schema[1].def.default # None
    /\ schema[1].def.choices # None
    /\ schema[1].def.pattern # None
    /\ schema[1].def.min # None
    /\ schema[1].def.maxLength # None
    /\ existingEnv # None
    /\ Has(The(existingEnv), schema[1].key)
    /\ Includes(DocLines[KeyLineAt(schema[1].key)], AlreadySet)

\* C16: for a key the Map lacks the annotation follows a strict priority, the
\* same for every type: the default if one is declared; else the choices,
\* joined by " | "; else the annotation of the pattern; else the summary of
\* the bounds if a length or range bound is declared; else the fallback
\* phrase of the name and type.
C16_Priority ==
    Rendered =>
        \A i \in 1..Len(schema) :
            LET key == schema[i].key
                def == schema[i].def
                line == DocLines[KeyLineAt(key)]
                note == SubSeq(line, Len(key) + 3, Len(line))
                Is(prefix) == StartsWith(note, Str(prefix))
            IN ~(existingEnv # None /\ Has(The(existingEnv), key))
               => IF def.default # None THEN Is("# Default: ")
                  ELSE IF def.choices # None THEN Is("# Options: ")
                  ELSE IF def.pattern # None
                  THEN \/ note = Str("# Example: user@example.com")
                       \/ note = Str("# Example: https://example.com")
                       \/ Is("# Must match: ")
                  ELSE IF \/ def.minLength # None \/ def.maxLength # None
                          \/ def.min # None \/ def.max # None
                  THEN Is("# Length: ") \/ Is("# Range: ")
                  ELSE /\ ~Is("# Default: ") /\ ~Is("# Options: ")
                       /\ ~Is("# Must match: ")
                       /\ ~Is("# Length: ") /\ ~Is("# Range: ")

\* C26: the summary of the bounds shows a declared bound as its value and an
\* absent bound as the infinity sign, for the length bounds of a string and
\* the range bounds of a number; a bound of 0 is a declared bound and is
\* shown as 0.  (For the absent minimum of a number the sign may carry a
\* minus.)
C26_BoundSummary ==
    Rendered =>
        \A i \in 1..Len(schema) :
            LET key == schema[i].key
                def == schema[i].def
                line == DocLines[KeyLineAt(key)]
                note == SubSeq(line, Len(key) + 3, Len(line))
                Bound(opt) == IF opt = None THEN <<Infinity>> ELSE NumberText(The(opt))
                nothingBefore ==
                    /\ ~(existingEnv # None /\ Has(The(existingEnv), key))
                    /\ def.default = None
                    /\ def.choices = None
            IN /\ (/\ nothingBefore
                   /\ def.type = "string"
                   /\ def.pattern = None
                   /\ def.minLength # None \/ def.maxLength # None)
                  => note = Str("# Length: ") \o Bound(def.minLength) \o <<"-">>
                            \o Bound(def.maxLength) \o Str(" characters")
               /\ (/\ nothingBefore
                   /\ def.type = "number"
                   /\ def.min # None \/ def.max # None)
                  => \/ note = Str("# Range: ") \o Bound(def.min) \o Str(" to ")
                               \o Bound(def.max)
                     \/ /\ def.min = None
                        /\ note = Str("# Range: -") \o Bound(def.min) \o Str(" to ")
                                  \o Bound(def.max)

\* C28: the rendered document has exactly one KEY= line for every schema
\* key, in exactly one of the two groups, and no line for a key of the
\* existing environment that the schema lacks; it holds no value of the
\* existing environment: the line of a key that is set is the fixed
\* "already set" line, and the document is the same for any other values
\* under the same keys.
C28_OneLinePerSchemaKey ==
    Rendered =>
        LET doc == DocLines
            KeyLines(key) == {i \in 1..Len(doc) : StartsWith(doc[i], key \o <<"=">>)}
            env == IF existingEnv = None THEN <<>> ELSE The(existingEnv)
            otherValues == [i \in 1..Len(env) |-> Entry(env[i].key, env[i].value \o Str("0"))]
        IN /\ \A i \in 1..Len(schema) :
                /\ Cardinality(KeyLines(schema[i].key)) = 1
                /\ InRequiredGroup(schema[i].key) # InOptionalGroup(schema[i].key)
                /\ Has(env, schema[i].key) =>
                     doc[KeyLineAt(schema[i].key)] =
                        schema[i].key \o Str("= # ") \o <<CheckMark>>
                        \o Str(" Already set in .env")
           /\ \A i \in 1..Len(env) :
                ~Has(schema, env[i].key) => KeyLines(env[i].key) = {}
           /\ Cardinality({i \in 1..Len(doc) : doc[i] # <<>> /\ Head(doc[i]) # "#"})
                = Len(schema)
           /\ existingEnv # None =>
                The(rendered) = generateEnvExampleFromSchema(schema, Some(otherValues))

\* A schema of two keys, one in each group, and an environment that sets one
\* of them and a key the schema lacks.
C28_Witness ==
    /\ Rendered
    /\ Len(schema) = 2
    /\ InRequiredGroup(schema[1].key)
    /\ InOptionalGroup(schema[2].key)
    /\ existingEnv # None
    /\ Len(The(existingEnv)) = 2
    /\ Has(The(existingEnv), schema[1].key)
    /\ \E i \in 1..2 : ~Has(schema, The(existingEnv)[i].key)
    /\ The(existingEnv)[1].value # <<>>

(***************************************************************************)
(* Properties of the check command.                                        *)
(***************************************************************************)
\* The run of check got to its report: the schema loaded and .env exists.
Reported == checkRun # None /\ The(checkRun).step = "report"

\* C17: a run of check that validates the environment exits with 0 exactly
\* when the validation passes and the reconciler finds no missing key; it
\* exits with a nonzero status when a required field is missing or the
\* validation fails; extra variables do not change the status.
C17_ExitStatus ==
    Reported =>
        LET run == The(checkRun)
            requiredMissing ==
                {i \in 1..Len(schema) :
                    schema[i].def.required = Some(TRUE) /\ ~Has(envVars, schema[i].key)}
            extraKeys == {i \in 1..Len(envVars) : ~Has(schema, envVars[i].key)}
            withoutExtra == SelectSeq(envVars, LAMBDA en : Has(schema, en.key))
        IN /\ run.exit = 0 <=> (ParsePasses(schema, envVars) /\ The(run.analysis).missing = <<>>)
           /\ requiredMissing # {} => run.exit # 0
           /\ ~ParsePasses(schema, envVars) => run.exit # 0
           /\ run.exit = 0 <=> (ParsePasses(schema, withoutExtra) /\ requiredMissing = {})

\* A run with an extra variable and nothing wrong has exited with 0.
C17_Witness ==
    /\ Reported
    /\ The(checkRun).exit = 0
    /\ The(The(checkRun).analysis).extra # <<>>
    /\ Len(schema) = 2
    /\ \E i \in 1..Len(schema) : schema[i].def.required = Some(TRUE)

\* The printed lines of a section of the report, in their order.
Section(name) == SelectSeq(The(checkRun).output, LAMBDA l : l.section = name)

\* C23: check is not fail-fast.  A run whose validation has failed has still
\* printed, in this order and before its exit with a nonzero status, the
\* failed validation, a line for every required key the .env file lacks, a
\* line for every variable the schema does not define, a line for every
\* schema key that is set, and the summary.
C23_NotFailFast ==
    (Reported /\ The(checkRun).validationPassed = Some(FALSE)) =>
        LET run == The(checkRun)
            out == run.output
            rank(l) == CASE l.section = "validation" -> 1
                         [] l.section = "missing" -> 2
                         [] l.section = "extra" -> 3
                         [] l.section = "present" -> 4
                         [] l.section = "summary" -> 5
            KeysOf(name) == {Section(name)[i].key : i \in 1..Len(Section(name))}
        IN /\ run.exit # 0
           /\ Len(Section("validation")) = 1 /\ out[1].section = "validation"
           /\ Len(Section("summary")) = 1 /\ out[Len(out)].section = "summary"
           /\ \A i, j \in 1..Len(out) : i < j => rank(out[i]) <= rank(out[j])
           /\ KeysOf("missing") =
                {schema[i].key : i \in {j \in 1..Len(schema) :
                    /\ schema[j].def.required = Some(TRUE)
                    /\ ~Has(envVars, schema[j].key)}}
           /\ KeysOf("extra") =
                {envVars[i].key : i \in {j \in 1..Len(envVars) : ~Has(schema, envVars[j].key)}}
           /\ KeysOf("present") =
                {schema[i].key : i \in {j \in 1..Len(schema) : Has(envVars, schema[j].key)}}

\* The validation has failed on a value, and a required key is missing, a
\* variable is extra and a key is present: all three are in the report.
C23_Witness ==
    /\ Reported
    /\ The(checkRun).validationPassed = Some(FALSE)
    /\ The(checkRun).exit = 1
    /\ Len(Section("missing")) = 1
    /\ Len(Section("extra")) = 1
    /\ Len(Section("present")) = 1
    /\ ~ValidatesField(Get(schema, Section("present")[1].key).def,
                       Get(envVars, Section("present")[1].key).value)

\* C27: check prints no secret in clear.  Every line of the present or the
\* extra section for a variable whose name contains SECRET, PASSWORD or KEY
\* shows ***, whatever the type of its field.
C27_SecretsMasked ==
    Reported =>
        \A i \in 1..Len(The(checkRun).output) :
            LET l == The(checkRun).output[i]
            IN (/\ l.section \in {"present", "extra"}
                /\ \/ Includes(l.key, Str("SECRET"))
                   \/ Includes(l.key, Str("PASSWORD"))
                   \/ Includes(l.key, Str("KEY")))
               => l.shown = Str("***")

(***************************************************************************)
(* Properties of the schema loader.                                        *)
(***************************************************************************)
\* loadSchema has run on a module that import() gave.
Imported == loaded # None /\ The(loaded).cause # "import"

\* A non-array object whose every value is an object with a type among
\* string, number and boolean.
SchemaShaped(v) ==
    /\ v.kind = "object"
    /\ \A i \in 1..Len(v.props) :
          LET field == v.props[i].value
          IN /\ field.kind = "object"
             /\ \E j \in 1..Len(field.props) :
                   /\ field.props[j].key = Str("type")
                   /\ field.props[j].value \in
                        {JsString(Str(t)) : t \in {"string", "number", "boolean"}}

Exported(name) == \E i \in 1..Len(exports) : exports[i].key = name
ExportOf(name) == exports[CHOOSE i \in 1..Len(exports) : exports[i].key = name].value

\* C18: loadSchema returns the default export if the module has one; else
\* the export named schema; else the export named envSchema; else the first
\* export, in export order, that is schema-shaped; and it fails with a load
\* error when there is none of these.
C18_ResolutionOrder ==
    Imported =>
        LET run == The(loaded)
            shaped == {i \in 1..Len(exports) : SchemaShaped(exports[i].value)}
        IN IF Exported(Str("default"))
           THEN ~run.threw /\ run.value = ExportOf(Str("default"))
           ELSE IF Exported(Str("schema"))
           THEN ~run.threw /\ run.value = ExportOf(Str("schema"))
           ELSE IF Exported(Str("envSchema"))
           THEN ~run.threw /\ run.value = ExportOf(Str("envSchema"))
           ELSE IF shaped # {}
           THEN ~run.threw
                /\ run.value = exports[CHOOSE i \in shaped : \A j \in shaped : i <= j].value
           ELSE run.threw

\* C19: loadSchema returns schema-shaped values only, whichever export the
\* value comes from; a module that does not resolve to one makes it throw
\* the load error, which wraps the cause.
C19_OnlySchemas ==
    loaded # None =>
        LET run == The(loaded)
        IN /\ ~run.threw => SchemaShaped(run.value)
           /\ (\A i \in 1..Len(exports) : ~SchemaShaped(exports[i].value))
                 => run.threw /\ run.cause # ""

Found == found # None

\* C20: findSchemaFile returns the first of schema.env.ts, schema.env.js,
\* env.schema.ts, env.schema.js, environment.schema.ts and
\* environment.schema.js, in this order, that exists in the base directory,
\* and null exactly when none of the six exists.
C20_FirstPattern ==
    Found =>
        LET six == <<"schema.env.ts", "schema.env.js", "env.schema.ts",
                     "env.schema.js", "environment.schema.ts", "environment.schema.js">>
            path == The(found).path
        IN /\ path = None <=> \A i \in 1..6 : six[i] \notin dirFiles
           /\ path # None =>
                \E i \in 1..6 : /\ path = Some(six[i])
                                /\ six[i] \in dirFiles
                                /\ \A j \in 1..(i - 1) : six[j] \notin dirFiles

\* Of two pairs of files that exist, the TypeScript file of the first pair
\* has been returned.
C20_Witness ==
    /\ Found
    /\ {"schema.env.ts", "schema.env.js", "env.schema.ts", "env.schema.js"} \subseteq dirFiles
    /\ The(found).path = Some("schema.env.ts")

(***************************************************************************)
(* Properties of the commands.                                             *)
(***************************************************************************)
\* A --schema option with a path in it.
PathGiven == options.schema # None /\ The(options.schema) # ""

\* C21: getSchemaFile never falls back silently.  With a path given it
\* returns that path when the file exists and else throws "Schema file not
\* found", whatever schema files the directory has; with no path given and
\* nothing to detect it throws a message that lists the six file names and
\* an example schema; check and sync-example then exit with a nonzero status.
C21_NoSilentFallback ==
    LET six == <<"schema.env.ts", "schema.env.js", "env.schema.ts",
                 "env.schema.js", "environment.schema.ts", "environment.schema.js">>
        detectable == \E i \in 1..6 : six[i] \in dirFiles
        noSchemaFile == IF PathGiven THEN The(options.schema) \notin dirFiles
                        ELSE ~detectable
    IN /\ got # None =>
            LET run == The(got)
            IN /\ run.threw <=> noSchemaFile
               /\ (PathGiven /\ ~run.threw) => run.path = The(options.schema)
               /\ (PathGiven /\ run.threw) =>
                     run.message = <<"Schema file not found: " \o The(options.schema)>>
               /\ (~PathGiven /\ run.threw) =>
                     /\ \A i \in 1..6 : "  - " \o six[i] \in Range(run.message)
                     /\ "Example schema.env.ts:" \in Range(run.message)
                     /\ "export default {" \in Range(run.message)
       /\ (checkRun # None /\ noSchemaFile) => The(checkRun).exit # 0
       /\ (syncRun # None /\ noSchemaFile) => The(syncRun).exit # 0

\* A path was given that is not there, in a directory where a schema file
\* could have been detected: getSchemaFile has thrown, check has exited with 1.
C21_Witness ==
    /\ got # None
    /\ checkRun # None
    /\ syncRun # None
    /\ options.schema = Some("my.schema.js")
    /\ "schema.env.ts" \in dirFiles
    /\ The(got).threw
    /\ The(checkRun).exit = 1
    /\ The(syncRun).exit = 1

\* C22: generate-schema writes the output file only when the output path
\* did not exist (and, with the default output, no schema file could be
\* detected) or --force was given, and the .env file exists and has a
\* variable; then the file holds a schema with an entry for every variable.
\* In every other case it exits with 1 and leaves every file as it was.
C22_WritesOnlyWhenAllowed ==
    [][calls' # calls =>
         LET explicit == options.output \in {Some("schema.env.js"), Some("out.js")}
             target == IF explicit THEN The(options.output) ELSE "schema.env.js"
             detectable == dirFiles \cap {"schema.env.ts", "schema.env.js",
                                          "env.schema.ts", "env.schema.js",
                                          "environment.schema.ts",
                                          "environment.schema.js"} # {}
             free == target \notin dirFiles /\ (explicit \/ ~detectable)
             allowed == (free \/ options.force) /\ envFile /\ Len(envVars) >= 1
         IN IF allowed
            THEN /\ The(genRun').exit = 0
                 /\ dirFiles' = dirFiles \cup {target}
                 /\ outFile' # None
                 /\ LET lines == SplitLines(The(outFile'))
                    IN /\ Str("module.exports = {") \in Range(lines)
                       /\ \A i \in 1..Len(envVars) :
                            Str("  ") \o envVars[i].key \o Str(": {") \in Range(lines)
                 /\ UNCHANGED <<envFile, envVars>>
            ELSE /\ The(genRun').exit = 1
                 /\ UNCHANGED <<dirFiles, outFile, envFile, envVars>>]_vars

\* Both outcomes in one behaviour: the first run has written the default
\* output, the second run, without --force, has found it and exited with 1.
C22_Witness ==
    /\ calls = 2
    /\ genRun = Some(GenerateEnded(1, "output"))
    /\ ~options.force
    /\ options.output = None
    /\ outFile # None
    /\ Str("  PORT: {") \in Range(SplitLines(The(outFile)))
    /\ Str("    max: 65535,") \in Range(SplitLines(The(outFile)))

\* C29: sync-example of the schema mode touches its output only and can be
\* repeated.  A run leaves the .env file and the schema file as they were;
\* when the schema loads, the run ends with status 0, missing and extra
\* variables or not, and the output file holds the same text after every
\* run, whatever it held before.
C29_Repeatable ==
    [][calls' # calls =>
         /\ UNCHANGED <<envFile, envVars, schema, dirFiles>>
         /\ importOk =>
              /\ The(syncRun').exit = 0
              /\ outFile' # None
              /\ Str("# Environment Variables") = SplitLines(The(outFile'))[1]
              /\ calls > 0 => outFile' = outFile]_vars

\* The second run, on a .env file that lacks a required key and has an extra
\* one, over an output file that the first run has replaced.
C29_Witness ==
    /\ calls = 2
    /\ syncRun # None
    /\ The(syncRun).exit = 0
    /\ The(The(syncRun).analysis).missing # <<>>
    /\ The(The(syncRun).analysis).extra # <<>>
    /\ outFile # None
    /\ The(outFile) # Str("A=1")

=============================================================================
